---------------------------- MODULE Spec2Model ----------------------------
(***************************************************************************)
(* Brightness analysis engine of brightness-detector-rpi                   *)
(* (src/src/analysis/brightness_analyzer.py) and the analysis tab that     *)
(* runs it (src/src/ui/analysis_tab.py).                                   *)
(*                                                                         *)
(* Conventions of the model                                                *)
(*  - A frame is a record [channels, rows]: channels = 3 is a colour frame *)
(*    (len(image.shape) == 3) whose cells are <<c0, c1, c2>> of 8-bit      *)
(*    values, channels = 1 is a grayscale frame whose cells are <<v>>.     *)
(*    rows is the sequence of rows, top to bottom.                         *)
(*  - A brightness map is a sequence of rows of brightness values.  The    *)
(*    values are exact rationals with denominator BrightnessDenominator,   *)
(*    held as their numerators: (r + g + b) / 3.0 is held as r + g + b     *)
(*    and a grayscale value v as 3 * v.                                    *)
(*  - A mean is the record [num, den] of the sum and the count of the      *)
(*    averaged cells (np.mean), again with num in map units.               *)
(*  - Points are 0-based (x, y) pairs as in the code; TLA+ sequences are   *)
(*    1-based, so cell (x, y) of map b is b[y + 1][x + 1].                 *)
(*  - A frame buffer is an entry of heap: heap[k] is what buffer k holds,  *)
(*    a frame or, once draw_markers has drawn on it, the frame with the    *)
(*    drawing.  Operations that build a new array add a buffer.            *)
(*  - The analysis tab (src/src/ui/analysis_tab.py) is the UI thread's     *)
(*    slots, each one action, and the worker threads of run_analysis,      *)
(*    one action per step of _run_analysis_thread between two accesses of  *)
(*    state the UI thread shares.                                          *)
(***************************************************************************)
EXTENDS Integers, Sequences, FiniteSets, TLC

VARIABLES
    kind,                   \* which scanner runs: "gif" or "video"
    frames,                 \* the frames the source holds, in source order
    cap_frame_count,        \* what the capture reports as CAP_PROP_FRAME_COUNT
    cap_pos,                \* the capture's read position (CAP_PROP_POS_FRAMES)
    sample_rate,            \* the stride argument
    pc,                     \* "idle", "loop", "done", "raised"
    error,                  \* the exception that ended the scan, or "none"
    total_frames,           \* local total_frames
    frame_count,            \* local frame_count / frame_number of the loop
    progress,               \* BrightnessAnalyzer.progress
    global_max_brightness,  \* running maximum
    global_brightest_point, \* point of the running maximum
    global_brightest_frame, \* retained frame, or None
    global_frame_number,    \* index of the retained frame
    result,                 \* the returned dictionary, or None
    evaluated,              \* indices passed to calculate_brightness in the loop
    pulls,                  \* what each pull of the source gave, in order
    progress_log,           \* the values progress has held, in order
    previous,               \* what the scan before this one returned, or None
    brightness,             \* the map handed to a locator function
    call,                   \* the locator call made on it, or None
    ret,                    \* what that call returned, or None
    heap,                   \* the frame buffers that exist, by buffer number
    request,                \* the frame operation called on them, or NoRequest
    outcome,                \* what that operation returned, or None
    current_image,          \* AnalysisTab.current_image, or None
    current_video,          \* AnalysisTab.current_video: the capture, or None
    is_gif,                 \* AnalysisTab.is_gif
    gif_frames,             \* AnalysisTab.gif_frames
    analyze_option,         \* the data of the selected analysis type
    config_sample_rate,     \* config["analysis"]["sample_rate"]
    analyze_button,         \* whether the Run Analysis button is enabled
    load_button,            \* whether the Load Media button is enabled
    progress_bar,           \* whether the progress bar is visible
    analysis_results,       \* AnalysisTab.analysis_results, or None
    timers,                 \* the QTimers run_analysis made: TRUE while active
    threads,                \* the worker threads run_analysis started
    null_frame_ops,         \* operations that were applied to a None frame
    current_analysis,       \* ResultsTab.current_analysis, or None
    camera,                 \* the camera object: its fields
    capture_tab,            \* CaptureTab: stream_active, recording, recording_path
    camera_call,            \* the camera method called last and what it returned
    config_file,            \* the config file: None, or its content
    DEFAULT_CONFIG,         \* utils.config.DEFAULT_CONFIG: what its sections hold
    window_config,          \* MainWindow.config: "none" until main has loaded it
    last_opened,            \* per path, when open_file selected it last
    opens                   \* the number of open_file calls that selected a file

vars == <<kind, frames, cap_frame_count, cap_pos, sample_rate, pc, error,
          total_frames, frame_count, progress, global_max_brightness,
          global_brightest_point, global_brightest_frame, global_frame_number,
          result, evaluated, pulls, progress_log, previous, brightness, call,
          ret,
          heap, request, outcome, current_image, current_video, is_gif,
          gif_frames, analyze_option, config_sample_rate, analyze_button,
          load_button, progress_bar, analysis_results, timers, threads,
          null_frame_ops, current_analysis, camera, capture_tab, camera_call,
          config_file, DEFAULT_CONFIG, window_config, last_opened, opens>>

scanVars == <<kind, frames, cap_frame_count, cap_pos, sample_rate, pc, error,
              total_frames, frame_count, progress, global_max_brightness,
              global_brightest_point, global_brightest_frame,
              global_frame_number, result, evaluated, pulls, progress_log,
              previous>>

fnVars == <<brightness, call, ret>>

bufVars == <<heap, request, outcome>>

\* the scanner's variables other than BrightnessAnalyzer.progress
scanRest == <<kind, frames, cap_frame_count, cap_pos, sample_rate, pc, error,
              total_frames, frame_count, global_max_brightness,
              global_brightest_point, global_brightest_frame,
              global_frame_number, result, evaluated, pulls, progress_log,
              previous>>

mediaVars == <<current_image, current_video, is_gif, gif_frames>>

widgetVars == <<analyze_option, analyze_button, load_button, progress_bar>>

uiVars == <<mediaVars, widgetVars, config_sample_rate, analysis_results, timers,
            threads, null_frame_ops, current_analysis>>

captureVars == <<camera, capture_tab, camera_call>>

configVars == <<config_file, DEFAULT_CONFIG, window_config, last_opened, opens>>

\* what the analysis side never touches
restVars == <<captureVars, configVars>>

---------------------------------------------------------------------------
(* Bounds of the model and constants of the program *)

MaxFrames == 3      \* longest source
MaxStride == 3      \* largest sample_rate
MaxHeight == 2      \* tallest brightness map handed to the locator
MaxWidth == 3       \* widest brightness map handed to the locator
MaxRadius == 2      \* largest radius handed to the local average

BrightnessDenominator == 3  \* the 3.0 of (r + g + b) / 3.0
AverageAreaSize == 10       \* config "average_area_size"
HistogramBins == 256        \* bins of calcHist
DefaultSampleRate == 5
NormBeta == 255             \* beta of cv2.normalize

\* Python's None and a present value, as a sequence of no or one element
None == <<>>
Some(v) == <<v>>

\* a call that returned v, and a call that raised exception e
Return(v) == [raised |-> "none", value |-> v]
Raise(e) == [raised |-> e, value |-> None]

---------------------------------------------------------------------------
(* numpy / OpenCV primitives used by the analyzer *)

Height(b) == Len(b)
Width(b) == IF Len(b) = 0 THEN 0 ELSE Len(b[1])
MapSize(b) == Height(b) * Width(b)

Max2(a, b) == IF a >= b THEN a ELSE b
Min2(a, b) == IF a <= b THEN a ELSE b

\* the cells of a map, as a set of values
Cells(b) == {b[y][x] : y \in 1..Height(b), x \in 1..Width(b)}

\* np.max / np.min of a non-empty array
NpMax(b) == CHOOSE m \in Cells(b) : \A v \in Cells(b) : v <= m
NpMin(b) == CHOOSE m \in Cells(b) : \A v \in Cells(b) : m <= v

\* the 0-based <<y, x>> indices of an h x w array in C (row-major) order
RowMajor(h, w) == [k \in 1..(h * w) |-> <<(k - 1) \div w, (k - 1) % w>>]

\* np.where(b == v): the matching <<y, x>> indices, in row-major order
NpWhere(b, v) ==
    SelectSeq(RowMajor(Height(b), Width(b)),
              LAMBDA p : b[p[1] + 1][p[2] + 1] = v)

\* b[y_min:y_max, x_min:x_max] with 0 <= min and max <= extent
Slice(b, y_min, y_max, x_min, x_max) ==
    [y \in 1..Max2(0, y_max - y_min) |->
        [x \in 1..Max2(0, x_max - x_min) |-> b[y_min + y][x_min + x]]]

RECURSIVE SumSeq(_)
SumSeq(s) == IF Len(s) = 0 THEN 0 ELSE s[1] + SumSeq(Tail(s))

RECURSIVE SumRows(_)
SumRows(b) == IF Len(b) = 0 THEN 0 ELSE SumSeq(b[1]) + SumRows(Tail(b))

\* np.mean of a non-empty region: sum over count
NpMean(region) == [num |-> SumRows(region), den |-> MapSize(region)]

\* cv2.cvtColor(frame, cv2.COLOR_BGR2RGB): the channel order is reversed
CvtColorBGR2RGB(frame) ==
    [frame EXCEPT !.rows =
        [y \in 1..Len(frame.rows) |->
            [x \in 1..Len(frame.rows[y]) |->
                <<frame.rows[y][x][3], frame.rows[y][x][2], frame.rows[y][x][1]>>]]]

---------------------------------------------------------------------------
(* BrightnessAnalyzer: the pure operations *)

\* calculate_brightness adding the channels as 8-bit values: the sum wraps
calculate_brightness_Uint8Sum(image) ==
    IF image.channels = 3
    THEN [y \in 1..Len(image.rows) |->
            [x \in 1..Len(image.rows[y]) |->
                (image.rows[y][x][1] + image.rows[y][x][2] + image.rows[y][x][3])
                    % 256]]
    ELSE [y \in 1..Len(image.rows) |->
            [x \in 1..Len(image.rows[y]) |->
                BrightnessDenominator * image.rows[y][x][1]]]

\* the channels are added as float32 values, which hold every sum up to
\* 3 * 255 exactly; a grayscale frame is converted value by value
calculate_brightness(image) ==
    IF image.channels = 3
    THEN [y \in 1..Len(image.rows) |->
            [x \in 1..Len(image.rows[y]) |->
                image.rows[y][x][1] + image.rows[y][x][2] + image.rows[y][x][3]]]
    ELSE [y \in 1..Len(image.rows) |->
            [x \in 1..Len(image.rows[y]) |->
                BrightnessDenominator * image.rows[y][x][1]]]

\* find_brightest_point taking the last match of np.where instead of the first
find_brightest_point_LastMatch(b) ==
    IF MapSize(b) = 0
    THEN Raise("ValueError")
    ELSE LET max_val == NpMax(b)
             yx == NpWhere(b, max_val)
         IN  IF Len(yx) > 0
             THEN Return(<<yx[Len(yx)][2], yx[Len(yx)][1]>>)
             ELSE Return(<<0, 0>>)

\* np.max raises ValueError on a zero-size array, before anything else runs
find_brightest_point(b) ==
    IF MapSize(b) = 0
    THEN Raise("ValueError")
    ELSE LET max_val == NpMax(b)
             yx == NpWhere(b, max_val)
         IN  IF Len(yx) > 0
             THEN Return(<<yx[1][2], yx[1][1]>>)
             ELSE Return(<<0, 0>>)

\* calculate_average_brightness without the + 1 of the slices' exclusive ends
calculate_average_brightness_ExclusiveEnd(b, point, radius) ==
    LET x == point[1]
        y == point[2]
        height == Height(b)
        width == Width(b)
        x_min == Max2(0, x - radius)
        x_max == Min2(width, x + radius)
        y_min == Max2(0, y - radius)
        y_max == Min2(height, y + radius)
    IN  NpMean(Slice(b, y_min, y_max, x_min, x_max))

calculate_average_brightness(b, point, radius) ==
    LET x == point[1]
        y == point[2]
        height == Height(b)
        width == Width(b)
        x_min == Max2(0, x - radius)
        x_max == Min2(width, x + radius + 1)
        y_min == Max2(0, y - radius)
        y_max == Min2(height, y + radius + 1)
    IN  NpMean(Slice(b, y_min, y_max, x_min, x_max))

\* cvRound(p / q) for p >= 0, q > 0: to nearest, ties to even
RoundHalfEven(p, q) ==
    LET f == p \div q
        r == p % q
    IN  IF 2 * r < q THEN f
        ELSE IF 2 * r > q THEN f + 1
        ELSE IF f % 2 = 0 THEN f ELSE f + 1

\* cv2.normalize(b, None, alpha=0, beta=255, NORM_MINMAX, CV_8U): the map's
\* minimum goes to 0 and its maximum to 255; a constant map has scale 0 and
\* goes to 0 everywhere
CvNormalizeMinMax(b) ==
    LET smin == NpMin(b)
        smax == NpMax(b)
    IN  [y \in 1..Height(b) |->
            [x \in 1..Width(b) |->
                IF smax = smin THEN 0
                ELSE RoundHalfEven((b[y][x] - smin) * NormBeta, smax - smin)]]

\* the sum and the number of all channel values of a frame
RECURSIVE SumCellsOfRow(_)
SumCellsOfRow(row) ==
    IF Len(row) = 0 THEN 0 ELSE SumSeq(row[1]) + SumCellsOfRow(Tail(row))

RECURSIVE SumImageRows(_)
SumImageRows(rows) ==
    IF Len(rows) = 0 THEN 0 ELSE SumCellsOfRow(rows[1]) + SumImageRows(Tail(rows))

ImageSize(image) == Len(image.rows) * Len(image.rows[1]) * image.channels

\* mean + factor * (x - mean) for mean = total / n and factor = num / den, as
\* the fraction [num, den] with den > 0
Stretch(x, total, n, factor) ==
    [num |-> factor.den * total + factor.num * (n * x - total),
     den |-> factor.den * n]

\* astype(np.uint8) without the np.clip before it: the integer part wraps
\* modulo 256
ClipToUint8_Wrap(v) ==
    IF v.num >= 0 THEN (v.num \div v.den) % 256
    ELSE (256 - (((-v.num) \div v.den) % 256)) % 256

\* np.clip(v, 0, 255) followed by astype(np.uint8), which drops the fraction
ClipToUint8(v) ==
    IF v.num < 0 THEN 0
    ELSE IF v.num > 255 * v.den THEN 255
    ELSE v.num \div v.den

\* enhance_contrast that always stretches by its default factor of 1.5
enhance_contrast_DefaultFactor(image, contrast_factor) ==
    LET total == SumImageRows(image.rows)
        n == ImageSize(image)
    IN  [image EXCEPT !.rows =
            [y \in 1..Len(image.rows) |->
                [x \in 1..Len(image.rows[y]) |->
                    [c \in 1..image.channels |->
                        ClipToUint8(Stretch(image.rows[y][x][c], total, n,
                                            [num |-> 3, den |-> 2]))]]]]

\* The float32 arithmetic is held as exact fractions.  mean is np.mean over
\* every channel value of the frame.
enhance_contrast(image, contrast_factor) ==
    LET total == SumImageRows(image.rows)
        n == ImageSize(image)
    IN  [image EXCEPT !.rows =
            [y \in 1..Len(image.rows) |->
                [x \in 1..Len(image.rows[y]) |->
                    [c \in 1..image.channels |->
                        ClipToUint8(Stretch(image.rows[y][x][c], total, n,
                                            contrast_factor))]]]]

\* calculate_histogram whose calcHist range stops at 255: [0, 255) is
\* exclusive at its end, so the brightest bin is never filled
calculate_histogram_ShortRange(b) ==
    LET brightness_norm == CvNormalizeMinMax(b)
    IN  [i \in 1..HistogramBins |->
            IF i = HistogramBins THEN 0
            ELSE Cardinality({p \in (1..Height(b)) \X (1..Width(b)) :
                                brightness_norm[p[1]][p[2]] = i - 1})]

\* calculate_histogram whose calcHist range is [1, 257): value 0 falls in no bin
calculate_histogram_FromOne(b) ==
    LET brightness_norm == CvNormalizeMinMax(b)
    IN  [i \in 1..HistogramBins |->
            Cardinality({p \in (1..Height(b)) \X (1..Width(b)) :
                            brightness_norm[p[1]][p[2]] = i})]

\* cv2.calcHist([m], [0], None, [256], [0, 256]) as the list of its counts
calculate_histogram(b) ==
    LET brightness_norm == CvNormalizeMinMax(b)
    IN  [i \in 1..HistogramBins |->
            Cardinality({p \in (1..Height(b)) \X (1..Width(b)) :
                            brightness_norm[p[1]][p[2]] = i - 1})]

\* draw_markers draws on the buffer it is given and returns it; the drawing is
\* kept as what was drawn on which pixels
draw_markers(image, point, max_brightness, avg_brightness) ==
    [image |-> image, point |-> point,
     max_label |-> max_brightness, avg_label |-> avg_brightness]

---------------------------------------------------------------------------
(* The sequence scanner: analyze_video and analyze_gif *)

\* a scanner that ignores the stride
IsSampled_Every(index, stride) == TRUE

\* frame_count % sample_rate == 0
IsSampled(index, stride) == index % stride = 0

\* max_brightness > global_max_brightness
IsBrighter(max_brightness, running_max) == max_brightness > running_max

\* int((frame_count / total_frames) * 100) for total_frames > 0: the float
\* quotient, times 100, truncated; for the counts of this model that is the
\* integer quotient of 100 * frame_count by total_frames
ProgressPercent(count, total) == (count * 100) \div total

\* the pass over the retained frame and the returned dictionary
ScanResult(best_frame, best_point, best_max, best_number, total, stride) ==
    LET b == calculate_brightness(best_frame[1])
        average_brightness ==
            IF best_frame # None
            THEN calculate_average_brightness(b, best_point, AverageAreaSize)
            ELSE [num |-> 0, den |-> 1]
        histogram ==
            IF best_frame # None
            THEN calculate_histogram(b)
            ELSE [i \in 1..HistogramBins |-> 0]
        brightest_frame_marked ==
            IF best_frame # None
            THEN Some(draw_markers(best_frame[1], best_point, best_max,
                                   average_brightness))
            ELSE None
    IN  [brightest_point |-> best_point,
         max_brightness |-> best_max,
         average_brightness |-> average_brightness,
         brightness_histogram |-> histogram,
         brightest_frame |-> best_frame,
         brightest_frame_marked |-> brightest_frame_marked,
         is_video |-> TRUE,
         frame_number |-> best_number,
         total_frames |-> total,
         sample_rate |-> stride]

---------------------------------------------------------------------------
(* The sources offered to the scanner *)

Black == <<0, 0, 0>>
Dim == <<10, 20, 30>>
White == <<255, 255, 255>>
Gray0 == <<0>>
Gray20 == <<20>>

ColorFrame(rows) == [channels |-> 3, rows |-> rows]
GrayFrame(rows) == [channels |-> 1, rows |-> rows]

\* 2 x 2 frames: all black; one dim pixel; two dim pixels elsewhere; a white
\* pixel; and a grayscale frame as bright as a dim pixel
FrameDomain ==
    { ColorFrame(<< <<Black, Black>>, <<Black, Black>> >>),
      ColorFrame(<< <<Black, Dim>>, <<Black, Black>> >>),
      ColorFrame(<< <<Black, Black>>, <<Dim, Dim>> >>),
      ColorFrame(<< <<Black, Black>>, <<Black, White>> >>),
      GrayFrame(<< <<Gray0, Gray20>>, <<Gray20, Gray0>> >>) }

RECURSIVE SeqsUpTo(_, _)
SeqsUpTo(S, n) ==
    IF n = 0 THEN {<<>>}
    ELSE LET shorter == SeqsUpTo(S, n - 1)
         IN  shorter \cup {Append(q, e) : q \in {t \in shorter : Len(t) = n - 1}, e \in S}

NoCall == [op |-> "none", point |-> <<0, 0>>, radius |-> 0]

NoRequest == [op |-> "none", supplied |-> 0, sample_rate |-> 1,
              contrast_factor |-> [num |-> 1, den |-> 1]]

InitFn ==
    /\ brightness = <<>>
    /\ call = NoCall
    /\ ret = None

\* no frame operation is called
InitBufIdle ==
    /\ heap = <<>>
    /\ request = NoRequest
    /\ outcome = None

\* the resolutions of the selector that the model distinguishes
Resolutions == {"640x480", "1280x720"}

DefaultResolution == "1280x720"

\* A camera object after its constructor.  class is the backend; available
\* says whether the hardware can be opened (picamera2 importable and the
\* sensor present, or cv2.VideoCapture(index).isOpened()); device is the
\* handle the object holds in self.camera: "none", "open", or "closed" for a
\* VideoCapture that did not open.  SimCamera's is_streaming and is_recording
\* are held in stream_active and recording.  open_writers are the targets of
\* the writers and encoder outputs that were opened and not released.
Camera(class, available, simulation_mode) ==
    [class |-> class,
     available |-> available,
     device |-> IF class = "RPiCamera" /\ available THEN "open" ELSE "none",
     resolution |-> DefaultResolution,
     stream_active |-> FALSE,
     recording |-> FALSE,
     video_writer |-> None,
     open_writers |-> {},
     recording_path |-> None,
     simulation_mode |-> simulation_mode,
     using_picamera_recording |-> FALSE]

\* CaptureTab.__init__
InitCaptureTab ==
    capture_tab = [stream_active |-> FALSE, recording |-> FALSE,
                   recording_path |-> None]

NoCameraCall == [op |-> "none", ret |-> "None"]

\* no camera operation is called
InitCaptureIdle ==
    /\ camera = Camera("CVCamera", TRUE, FALSE)
    /\ InitCaptureTab
    /\ camera_call = NoCameraCall

\* the most entries open_file keeps in recent_files
RecentLimit == 10

\* the files the dialog of open_file can name: ten that earlier sessions
\* opened, "f1" last, and two that were never opened
FullList == <<"f1", "f2", "f3", "f4", "f5", "f6", "f7", "f8", "f9", "f10">>

AllPaths == {FullList[i] : i \in 1..RecentLimit} \cup {"g1", "g2"}

\* a time before every opening
Never == 0 - (RecentLimit + 1)

\* DEFAULT_CONFIG as the module defines it: of each section the keys that the
\* model follows
OriginalDefaults ==
    [camera |-> [brightness |-> 50],
     analysis |-> [sample_rate |-> DefaultSampleRate],
     ui |-> [recent_files |-> <<>>]]

\* no configuration call is made
InitConfigIdle ==
    /\ config_file = None
    /\ DEFAULT_CONFIG = OriginalDefaults
    /\ window_config = "none"
    /\ last_opened = [p \in AllPaths |-> Never]
    /\ opens = 0

InitRestIdle ==
    /\ InitCaptureIdle
    /\ InitConfigIdle

\* AnalysisTab.__init__ and init_ui, ResultsTab.__init__
InitUi ==
    /\ current_image = None
    /\ current_video = None
    /\ is_gif = FALSE
    /\ gif_frames = <<>>
    /\ analyze_option = "frame"
    /\ config_sample_rate = DefaultSampleRate
    /\ analyze_button = FALSE
    /\ load_button = TRUE
    /\ progress_bar = FALSE
    /\ analysis_results = None
    /\ timers = <<>>
    /\ threads = <<>>
    /\ null_frame_ops = {}
    /\ current_analysis = None

\* BrightnessAnalyzer.__init__ and the locals' first values
InitScanLocals ==
    /\ pc = "idle"
    /\ error = "none"
    /\ total_frames = 0
    /\ frame_count = 0
    /\ progress = 0
    /\ global_max_brightness = 0
    /\ global_brightest_point = <<0, 0>>
    /\ global_brightest_frame = None
    /\ global_frame_number = 0
    /\ result = None
    /\ evaluated = <<>>
    /\ pulls = <<>>
    /\ progress_log = <<0>>
    /\ previous = None

\* A GIF is a list of frames.  A video is a capture that holds frames, reports
\* a frame count of its own (the container's header, which need not be the
\* number of frames it yields) and stands at some position.
Init ==
    /\ kind \in {"gif", "video"}
    /\ frames \in SeqsUpTo(FrameDomain, MaxFrames)
    /\ sample_rate \in 1..MaxStride
    /\ IF kind = "video"
       THEN /\ cap_frame_count \in 0..MaxFrames
            /\ cap_pos \in {0, Min2(1, Len(frames))}
       ELSE /\ cap_frame_count = 0
            /\ cap_pos = 0
    /\ InitScanLocals
    /\ InitFn
    /\ InitBufIdle
    /\ InitUi
    /\ InitRestIdle

\* a capture that ignores the request to seek
SetPosFrames_Ignored(pos, target) == pos

\* video_capture.set(cv2.CAP_PROP_POS_FRAMES, 0): the position after the seek
SetPosFrames(pos, target) == target

\* the update of the running best-of by an evaluated frame
Evaluate(frame, index) ==
    LET b == calculate_brightness(frame)
        max_brightness == NpMax(b)
    IN  /\ evaluated' = Append(evaluated, index)
        /\ IF IsBrighter(max_brightness, global_max_brightness)
           THEN /\ global_max_brightness' = max_brightness
                /\ global_brightest_point' = find_brightest_point(b).value
                /\ global_brightest_frame' = Some(frame)
                /\ global_frame_number' = index
           ELSE UNCHANGED <<global_max_brightness, global_brightest_point,
                            global_brightest_frame, global_frame_number>>

NotEvaluated ==
    UNCHANGED <<evaluated, global_max_brightness, global_brightest_point,
                global_brightest_frame, global_frame_number>>

\* analyze_video up to the loop: the properties, the locals, the rewind
analyze_video_begin ==
    /\ kind = "video"
    /\ pc = "idle"
    /\ total_frames' = cap_frame_count
    /\ global_max_brightness' = 0
    /\ global_brightest_point' = <<0, 0>>
    /\ global_brightest_frame' = None
    /\ global_frame_number' = 0
    /\ frame_count' = 0
    /\ cap_pos' = SetPosFrames(cap_pos, 0)
    /\ pc' = "loop"
    /\ UNCHANGED <<kind, frames, cap_frame_count, sample_rate, error, progress,
                   result, evaluated, pulls, progress_log, previous>>
    /\ UNCHANGED <<fnVars, bufVars, uiVars, restVars>>

\* one turn of the loop on which read() gives a frame
analyze_video_frame ==
    /\ kind = "video"
    /\ pc = "loop"
    /\ cap_pos < Len(frames)
    /\ cap_pos' = cap_pos + 1
    /\ pulls' = Append(pulls, [ret |-> TRUE, index |-> cap_pos])
    /\ IF total_frames = 0
       THEN \* frame_count / total_frames raises ZeroDivisionError
            /\ pc' = "raised"
            /\ error' = "ZeroDivisionError"
            /\ NotEvaluated
            /\ UNCHANGED <<progress, frame_count, progress_log>>
       ELSE /\ progress' = ProgressPercent(frame_count, total_frames)
            /\ progress_log' = Append(progress_log, progress')
            /\ IF IsSampled(frame_count, sample_rate)
               THEN LET frame == frames[cap_pos + 1]
                        frame_rgb == IF frame.channels = 3
                                     THEN CvtColorBGR2RGB(frame)
                                     ELSE frame
                    IN  Evaluate(frame_rgb, frame_count)
               ELSE NotEvaluated
            /\ frame_count' = frame_count + 1
            /\ UNCHANGED <<pc, error>>
    /\ UNCHANGED <<kind, frames, cap_frame_count, sample_rate, total_frames, result,
                   previous>>
    /\ UNCHANGED <<fnVars, bufVars, uiVars, restVars>>

\* the turn on which read() gives no frame: break, rewind, the pass over the
\* retained frame, return
analyze_video_end ==
    /\ kind = "video"
    /\ pc = "loop"
    /\ cap_pos >= Len(frames)
    /\ pulls' = Append(pulls, [ret |-> FALSE, index |-> cap_pos])
    /\ cap_pos' = SetPosFrames(cap_pos, 0)
    /\ result' = Some(ScanResult(global_brightest_frame, global_brightest_point,
                                 global_max_brightness, global_frame_number,
                                 total_frames, sample_rate))
    /\ pc' = "done"
    /\ UNCHANGED <<kind, frames, cap_frame_count, sample_rate, error, total_frames,
                   frame_count, progress, global_max_brightness,
                   global_brightest_point, global_brightest_frame,
                   global_frame_number, evaluated, progress_log, previous>>
    /\ UNCHANGED <<fnVars, bufVars, uiVars, restVars>>

\* an analyze_gif without its check for no frames
IsEmptySequence_Never(fs) == FALSE

\* len(frames) == 0
IsEmptySequence(fs) == Len(fs) = 0

\* analyze_gif up to the loop: the length, the check for no frames, the locals
analyze_gif_begin ==
    /\ kind = "gif"
    /\ pc = "idle"
    /\ total_frames' = Len(frames)
    /\ IF IsEmptySequence(frames)
       THEN /\ pc' = "raised"
            /\ error' = "ValueError"
       ELSE /\ pc' = "loop"
            /\ UNCHANGED error
    /\ global_max_brightness' = 0
    /\ global_brightest_point' = <<0, 0>>
    /\ global_brightest_frame' = None
    /\ global_frame_number' = 0
    /\ frame_count' = 0
    /\ UNCHANGED <<kind, frames, cap_frame_count, cap_pos, sample_rate, progress,
                   result, evaluated, pulls, progress_log, previous>>
    /\ UNCHANGED <<fnVars, bufVars, uiVars, restVars>>

\* one turn of the for loop over enumerate(frames)
analyze_gif_frame ==
    /\ kind = "gif"
    /\ pc = "loop"
    /\ frame_count < Len(frames)
    /\ pulls' = Append(pulls, [ret |-> TRUE, index |-> frame_count])
    /\ progress' = ProgressPercent(frame_count, total_frames)
    /\ progress_log' = Append(progress_log, progress')
    /\ IF IsSampled(frame_count, sample_rate)
       THEN Evaluate(frames[frame_count + 1], frame_count)
       ELSE NotEvaluated
    /\ frame_count' = frame_count + 1
    /\ UNCHANGED <<kind, frames, cap_frame_count, cap_pos, sample_rate, pc, error,
                   total_frames, result, previous>>
    /\ UNCHANGED <<fnVars, bufVars, uiVars, restVars>>

\* the list is exhausted: the pass over the retained frame, return
analyze_gif_end ==
    /\ kind = "gif"
    /\ pc = "loop"
    /\ frame_count >= Len(frames)
    /\ pulls' = Append(pulls, [ret |-> FALSE, index |-> frame_count])
    /\ result' = Some(ScanResult(global_brightest_frame, global_brightest_point,
                                 global_max_brightness, global_frame_number,
                                 total_frames, sample_rate))
    /\ pc' = "done"
    /\ UNCHANGED <<kind, frames, cap_frame_count, cap_pos, sample_rate, error,
                   total_frames, frame_count, progress, global_max_brightness,
                   global_brightest_point, global_brightest_frame,
                   global_frame_number, evaluated, progress_log, previous>>
    /\ UNCHANGED <<fnVars, bufVars, uiVars, restVars>>

Next ==
    \/ analyze_video_begin
    \/ analyze_video_frame
    \/ analyze_video_end
    \/ analyze_gif_begin
    \/ analyze_gif_frame
    \/ analyze_gif_end

Spec == Init /\ [][Next]_vars

\* the caller calls analyze_video or analyze_gif again on the source it passed
\* before: the capture stands where the first call left it, the analyzer holds
\* the progress the first call left, and the call's locals are new
scan_again ==
    /\ pc = "done"
    /\ previous = None
    /\ previous' = result
    /\ result' = None
    /\ pc' = "idle"
    /\ evaluated' = <<>>
    /\ pulls' = <<>>
    /\ progress_log' = <<progress>>
    /\ UNCHANGED <<kind, frames, cap_frame_count, cap_pos, sample_rate, error,
                   total_frames, frame_count, progress, global_max_brightness,
                   global_brightest_point, global_brightest_frame,
                   global_frame_number>>
    /\ UNCHANGED <<fnVars, bufVars, uiVars, restVars>>

\* the sources scanned twice: a capture whose header count is right or too
\* large, standing at its start or past its first frame
InitRescan ==
    /\ kind \in {"gif", "video"}
    /\ frames \in SeqsUpTo(FrameDomain, MaxFrames)
    /\ sample_rate \in 1..MaxStride
    /\ IF kind = "video"
       THEN /\ cap_frame_count \in {Len(frames), MaxFrames}
            /\ cap_pos \in {0, Min2(1, Len(frames))}
       ELSE /\ cap_frame_count = 0
            /\ cap_pos = 0
    /\ InitScanLocals
    /\ InitFn
    /\ InitBufIdle
    /\ InitUi
    /\ InitRestIdle

NextRescan ==
    \/ Next
    \/ scan_again

SpecRescan == InitRescan /\ [][NextRescan]_vars

---------------------------------------------------------------------------
(* The locator functions applied to brightness maps *)

MapValues == {1, 5}

\* every h x w map over MapValues, 0 <= h <= MaxHeight, 0 <= w <= MaxWidth;
\* h = 0 or w = 0 gives the zero-sized maps of shape (0, 0) and (h, 0)
MapDomain ==
    UNION { [1..h -> [1..w -> MapValues]] : h \in 0..MaxHeight, w \in 0..MaxWidth }

\* the scanner at rest
InitScanIdle ==
    /\ kind = "gif"
    /\ frames = <<>>
    /\ sample_rate = 1
    /\ cap_frame_count = 0
    /\ cap_pos = 0
    /\ InitScanLocals

InitLocator ==
    /\ InitScanIdle
    /\ brightness \in MapDomain
    /\ call = NoCall
    /\ ret = None
    /\ InitBufIdle
    /\ InitUi
    /\ InitRestIdle

call_find_brightest_point ==
    /\ call.op = "none"
    /\ call' = [call EXCEPT !.op = "find_brightest_point"]
    /\ ret' = Some(find_brightest_point(brightness))
    /\ UNCHANGED brightness
    /\ UNCHANGED <<scanVars, bufVars, uiVars, restVars>>

\* the centre is a point of the map, the radius is any r >= 0
call_calculate_average_brightness ==
    /\ call.op = "none"
    /\ \E x \in 0..(Width(brightness) - 1), y \in 0..(Height(brightness) - 1),
          r \in 0..MaxRadius :
            /\ call' = [op |-> "calculate_average_brightness",
                        point |-> <<x, y>>, radius |-> r]
            /\ ret' = Some(Return(calculate_average_brightness(brightness, <<x, y>>, r)))
    /\ UNCHANGED brightness
    /\ UNCHANGED <<scanVars, bufVars, uiVars, restVars>>

\* the histogram of a non-empty map
call_calculate_histogram ==
    /\ call.op = "none"
    /\ MapSize(brightness) > 0
    /\ call' = [call EXCEPT !.op = "calculate_histogram"]
    /\ ret' = Some(Return(calculate_histogram(brightness)))
    /\ UNCHANGED brightness
    /\ UNCHANGED <<scanVars, bufVars, uiVars, restVars>>

NextLocator ==
    \/ call_find_brightest_point
    \/ call_calculate_average_brightness
    \/ call_calculate_histogram

SpecLocator == InitLocator /\ [][NextLocator]_vars

---------------------------------------------------------------------------
(* The frame operations applied to frame buffers *)

\* A buffer holds a frame, or, once draw_markers has drawn on it, the frame
\* with the drawing.  heap[k] is what buffer k holds; a new buffer gets the
\* next number.

Red == <<255, 0, 0>>
Gray255 == <<255>>

\* the frames handed to the single-frame operations: every 1 x 2 colour
\* frame over four pixels, every 1 x 2 grayscale frame over three values, and
\* the 2 x 2 frames of the sources
ImageDomain ==
    {ColorFrame(<< <<a, b>> >>) : a \in {Black, Dim, White, Red},
                                 b \in {Black, Dim, White, Red}}
    \cup {GrayFrame(<< <<a, b>> >>) : a \in {Gray0, Gray20, Gray255},
                                     b \in {Gray0, Gray20, Gray255}}
    \cup FrameDomain

\* contrast factors: 1.0, the default 1.5, 0, 3 and -1
DefaultContrastFactor == [num |-> 3, den |-> 2]

ContrastFactors ==
    {[num |-> 1, den |-> 1], DefaultContrastFactor, [num |-> 0, den |-> 1],
     [num |-> 3, den |-> 1], [num |-> -1, den |-> 1]}

\* ndarray.copy() handing back the array itself instead of a new one
NdarrayCopy_Alias(h, k) == [heap |-> h, id |-> k]

\* ndarray.copy(): a new buffer with the same contents
NdarrayCopy(h, k) == [heap |-> Append(h, h[k]), id |-> Len(h) + 1]

\* an operation that builds a new array (astype, cv2.cvtColor,
\* VideoCapture.read) puts it in a new buffer
NewBuffer(h, contents) == [heap |-> Append(h, contents), id |-> Len(h) + 1]

\* draw_markers on buffer k: the buffer itself is drawn on and handed back
DrawMarkersOn(h, k, point, max_brightness, avg_brightness) ==
    [heap |-> [h EXCEPT ![k] = draw_markers(h[k], point, max_brightness,
                                            avg_brightness)],
     id |-> k]

IsMarked(contents) == "point" \in DOMAIN contents

\* config.get("highlight_color", (255, 0, 0)); on a one-channel array the
\* drawing functions use the first component
HighlightColor(channels) == IF channels = 3 THEN Red ELSE Gray255

\* the pixels a buffer holds: both lines of the crosshair pass through the
\* point, so a buffer that was drawn on holds the highlight colour there
BufferPixels(contents) ==
    IF IsMarked(contents)
    THEN [contents.image EXCEPT
            !.rows[contents.point[2] + 1][contents.point[1] + 1] =
                HighlightColor(contents.image.channels)]
    ELSE contents

\* the caller's buffers: one frame for the single-frame operations, or the
\* frames of a GIF or of a video
InitFrames ==
    /\ InitScanIdle
    /\ InitFn
    /\ heap \in {<<image>> : image \in ImageDomain}
                \cup SeqsUpTo(FrameDomain, MaxFrames)
    /\ request = NoRequest
    /\ outcome = None
    /\ InitUi
    /\ InitRestIdle

call_calculate_brightness ==
    /\ request.op = "none"
    /\ Len(heap) = 1
    /\ request' = [request EXCEPT !.op = "calculate_brightness", !.supplied = 1]
    /\ outcome' = Some(Return(calculate_brightness(heap[1])))
    /\ UNCHANGED heap
    /\ UNCHANGED <<scanVars, fnVars, uiVars, restVars>>

\* image.astype(np.float32) and enhanced.astype(np.uint8) build new arrays
call_enhance_contrast ==
    /\ request.op = "none"
    /\ Len(heap) = 1
    /\ \E contrast_factor \in ContrastFactors :
        LET enhanced == NewBuffer(heap, enhance_contrast(heap[1], contrast_factor))
        IN  /\ request' = [request EXCEPT !.op = "enhance_contrast",
                                          !.supplied = 1,
                                          !.contrast_factor = contrast_factor]
            /\ heap' = enhanced.heap
            /\ outcome' = Some(Return(enhanced.id))
    /\ UNCHANGED <<scanVars, fnVars, uiVars, restVars>>

\* analyze_image: the statistics of the image, then the enhanced copy, which
\* draw_markers draws on; both frame fields of the result name that buffer
analyze_image(h, image) ==
    LET brightness_map == calculate_brightness(h[image])
        brightest_point == find_brightest_point(brightness_map).value
        max_brightness == NpMax(brightness_map)
        average_brightness ==
            calculate_average_brightness(brightness_map, brightest_point,
                                         AverageAreaSize)
        histogram == calculate_histogram(brightness_map)
        copied == NdarrayCopy(h, image)
        enhanced_image ==
            NewBuffer(copied.heap,
                      enhance_contrast(copied.heap[copied.id], DefaultContrastFactor))
        brightest_frame_marked ==
            DrawMarkersOn(enhanced_image.heap, enhanced_image.id, brightest_point,
                          max_brightness, average_brightness)
    IN  [heap |-> brightest_frame_marked.heap,
         result |->
            [brightest_point |-> brightest_point,
             max_brightness |-> max_brightness,
             average_brightness |-> average_brightness,
             brightness_histogram |-> histogram,
             brightest_frame |-> Some(enhanced_image.id),
             brightest_frame_marked |-> Some(brightest_frame_marked.id),
             is_video |-> FALSE,
             frame_number |-> 0]]

call_analyze_image ==
    /\ request.op = "none"
    /\ Len(heap) = 1
    /\ LET done == analyze_image(heap, 1)
       IN  /\ heap' = done.heap
           /\ outcome' = Some(Return(done.result))
    /\ request' = [request EXCEPT !.op = "analyze_image", !.supplied = 1]
    /\ UNCHANGED <<scanVars, fnVars, uiVars, restVars>>

\* the locals of a scan before its loop
ScanStart(h) ==
    [heap |-> h,
     global_max_brightness |-> 0,
     global_brightest_point |-> <<0, 0>>,
     global_brightest_frame |-> None,
     global_frame_number |-> 0]

\* the update of the running best-of by the frame in buffer k: the retained
\* frame is a copy
Retain(st, k, index) ==
    LET b == calculate_brightness(st.heap[k])
        max_brightness == NpMax(b)
    IN  IF IsBrighter(max_brightness, st.global_max_brightness)
        THEN LET kept == NdarrayCopy(st.heap, k)
             IN  [heap |-> kept.heap,
                  global_max_brightness |-> max_brightness,
                  global_brightest_point |-> find_brightest_point(b).value,
                  global_brightest_frame |-> Some(kept.id),
                  global_frame_number |-> index]
        ELSE st

\* the for loop of analyze_gif from frame_number on, over buffers 1..n
RECURSIVE GifLoop(_, _, _, _)
GifLoop(st, n, frame_number, stride) ==
    IF frame_number >= n THEN st
    ELSE GifLoop(IF IsSampled(frame_number, stride)
                 THEN Retain(st, frame_number + 1, frame_number)
                 ELSE st,
                 n, frame_number + 1, stride)

\* the while loop of analyze_video from frame_count on: read() decodes the
\* frame of the capture into a new array, cv2.cvtColor builds another
RECURSIVE VideoLoop(_, _, _, _)
VideoLoop(st, n, count, stride) ==
    IF count >= n THEN st
    ELSE LET frame == NewBuffer(st.heap, st.heap[count + 1])
             frame_rgb == IF st.heap[count + 1].channels = 3
                          THEN NewBuffer(frame.heap,
                                         CvtColorBGR2RGB(frame.heap[frame.id]))
                          ELSE frame
         IN  VideoLoop(IF IsSampled(count, stride)
                       THEN Retain([st EXCEPT !.heap = frame_rgb.heap],
                                   frame_rgb.id, count)
                       ELSE [st EXCEPT !.heap = frame.heap],
                       n, count + 1, stride)

\* the pass over the retained frame and the returned dictionary: the markers
\* are drawn on a copy of the retained frame
ScanOutcome(st, total, stride) ==
    IF st.global_brightest_frame # None
    THEN LET b == calculate_brightness(st.heap[st.global_brightest_frame[1]])
             average_brightness ==
                calculate_average_brightness(b, st.global_brightest_point,
                                             AverageAreaSize)
             copied == NdarrayCopy(st.heap, st.global_brightest_frame[1])
             brightest_frame_marked ==
                DrawMarkersOn(copied.heap, copied.id, st.global_brightest_point,
                              st.global_max_brightness, average_brightness)
         IN  [heap |-> brightest_frame_marked.heap,
              result |->
                [brightest_point |-> st.global_brightest_point,
                 max_brightness |-> st.global_max_brightness,
                 average_brightness |-> average_brightness,
                 brightness_histogram |-> calculate_histogram(b),
                 brightest_frame |-> st.global_brightest_frame,
                 brightest_frame_marked |-> Some(brightest_frame_marked.id),
                 is_video |-> TRUE,
                 frame_number |-> st.global_frame_number]]
    ELSE [heap |-> st.heap,
          result |->
            [brightest_point |-> st.global_brightest_point,
             max_brightness |-> st.global_max_brightness,
             average_brightness |-> [num |-> 0, den |-> 1],
             brightness_histogram |-> [i \in 1..HistogramBins |-> 0],
             brightest_frame |-> None,
             brightest_frame_marked |-> None,
             is_video |-> TRUE,
             frame_number |-> st.global_frame_number]]

\* analyze_gif on the list of the caller's buffers
call_analyze_gif ==
    /\ request.op = "none"
    /\ \E stride \in 1..MaxStride :
        /\ request' = [request EXCEPT !.op = "analyze_gif",
                                      !.supplied = Len(heap),
                                      !.sample_rate = stride]
        /\ IF IsEmptySequence(heap)
           THEN /\ outcome' = Some(Raise("ValueError"))
                /\ UNCHANGED heap
           ELSE LET done == ScanOutcome(GifLoop(ScanStart(heap), Len(heap), 0, stride),
                                        Len(heap), stride)
                IN  /\ heap' = done.heap
                    /\ outcome' = Some(Return(done.result))
    /\ UNCHANGED <<scanVars, fnVars, uiVars, restVars>>

\* analyze_video on a capture that holds the caller's buffers and reports
\* total frames; with total = 0 the first frame read ends the scan with
\* ZeroDivisionError, after read() has built its array
call_analyze_video ==
    /\ request.op = "none"
    /\ \E stride \in 1..MaxStride, total \in {0, Len(heap)} :
        /\ request' = [request EXCEPT !.op = "analyze_video",
                                      !.supplied = Len(heap),
                                      !.sample_rate = stride]
        /\ IF total = 0 /\ Len(heap) > 0
           THEN /\ outcome' = Some(Raise("ZeroDivisionError"))
                /\ heap' = NewBuffer(heap, heap[1]).heap
           ELSE LET done == ScanOutcome(VideoLoop(ScanStart(heap), Len(heap), 0, stride),
                                        total, stride)
                IN  /\ heap' = done.heap
                    /\ outcome' = Some(Return(done.result))
    /\ UNCHANGED <<scanVars, fnVars, uiVars, restVars>>

NextFrames ==
    \/ call_calculate_brightness
    \/ call_enhance_contrast
    \/ call_analyze_image
    \/ call_analyze_gif
    \/ call_analyze_video

SpecFrames == InitFrames /\ [][NextFrames]_vars

---------------------------------------------------------------------------
(* The analysis tab: the UI thread's handlers and the worker threads *)

MaxRuns == 2        \* most runs started in one behaviour

BlackFrame == ColorFrame(<< <<Black, Black>>, <<Black, Black>> >>)
DimFrame == ColorFrame(<< <<Black, Dim>>, <<Black, Black>> >>)

\* The files offered to load_media: an image; a GIF of one black frame; a
\* GIF and a video of a dim frame and a black one; a video of one black frame;
\* a video whose container reports no frames; a file that cannot be read.
MediaFiles ==
    {[type |-> "image", frames |-> <<DimFrame>>, frame_count |-> 1],
     [type |-> "gif", frames |-> <<BlackFrame>>, frame_count |-> 1],
     [type |-> "gif", frames |-> <<DimFrame, BlackFrame>>, frame_count |-> 2],
     [type |-> "video", frames |-> <<DimFrame, BlackFrame>>, frame_count |-> 2],
     [type |-> "video", frames |-> <<BlackFrame>>, frame_count |-> 1],
     [type |-> "video", frames |-> <<DimFrame, BlackFrame>>, frame_count |-> 0],
     [type |-> "unreadable", frames |-> <<>>, frame_count |-> 0]}

\* A worker thread: where it stands in _run_analysis_thread, its
\* analysis_type argument, and the locals of the analyzer method it runs.
\* source is what it analyses once it has chosen its branch; released tells
\* that the capture it reads was released under it.
NewThread(analysis_type) ==
    [pc |-> "start",
     analysis_type |-> analysis_type,
     source |-> "none",
     frames |-> <<>>,
     released |-> FALSE,
     sample_rate |-> 1,
     total_frames |-> 0,
     frame_count |-> 0,
     global_max_brightness |-> 0,
     global_brightest_frame |-> None,
     result |-> None]

\* a thread that has returned: its locals are gone
Finished(th) == [NewThread(th.analysis_type) EXCEPT !.pc = "finished"]

\* current_video.release(): every thread that reads the capture loses it
ReleaseCapture(ths) ==
    [t \in DOMAIN ths |->
        IF ths[t].source = "video" THEN [ths[t] EXCEPT !.released = TRUE]
        ELSE ths[t]]

\* AnalysisTab.clear, on the Clear button and at the start of load_media and
\* set_image
clear ==
    /\ current_image' = None
    /\ is_gif' = FALSE
    /\ gif_frames' = <<>>
    /\ current_video' = None
    /\ threads' = IF current_video # None THEN ReleaseCapture(threads) ELSE threads
    /\ analyze_button' = FALSE
    /\ progress_bar' = FALSE
    /\ analysis_results' = None
    /\ UNCHANGED <<analyze_option, load_button, config_sample_rate, timers,
                   null_frame_ops, current_analysis>>
    /\ UNCHANGED <<scanVars, fnVars, bufVars, restVars>>

\* AnalysisTab.load_media, from the Load Media button's dialog or from
\* MainWindow.open_file: clear(), then the media of the file; a video's first
\* frame is read for the preview
LoadMedia(file) ==
    /\ threads' = IF current_video # None THEN ReleaseCapture(threads) ELSE threads
    /\ progress_bar' = FALSE
    /\ analysis_results' = None
    /\ is_gif' = (file.type = "gif")
    /\ gif_frames' = IF file.type = "gif" THEN file.frames ELSE <<>>
    /\ current_video' =
            IF file.type = "video"
            THEN Some([frames |-> file.frames, frame_count |-> file.frame_count,
                       pos |-> 1])
            ELSE None
    /\ current_image' =
            CASE file.type = "gif" -> Some(file.frames[1])
              [] file.type \in {"video", "image"} ->
                    Some(CvtColorBGR2RGB(file.frames[1]))
              [] OTHER -> None
    /\ analyze_option' =
            CASE file.type \in {"gif", "video"} -> "video"
              [] file.type = "image" -> "frame"
              [] OTHER -> analyze_option
    /\ analyze_button' = (file.type # "unreadable")
    /\ UNCHANGED <<load_button, config_sample_rate, timers, null_frame_ops,
                   current_analysis>>

load_media ==
    \E file \in MediaFiles :
        /\ LoadMedia(file)
        /\ UNCHANGED <<scanVars, fnVars, bufVars, restVars>>

\* the user picks an analysis type in the combo box
select_analyze_option ==
    /\ \E option \in {"frame", "video"} :
        /\ option # analyze_option
        /\ analyze_option' = option
    /\ UNCHANGED <<mediaVars, analyze_button, load_button, progress_bar,
                   config_sample_rate, analysis_results, timers, threads,
                   null_frame_ops, current_analysis>>
    /\ UNCHANGED <<scanVars, fnVars, bufVars, restVars>>

\* the body of run_analysis; the sample-rate spin box holds the value it was
\* made with, the configured one
StartRun(image, video, gif, option) ==
    LET has_image == image # None
        has_video == video # None
        has_gif == gif
    IN  IF ~(has_image \/ has_video \/ has_gif)
        THEN UNCHANGED <<config_sample_rate, analyze_button, load_button,
                         progress_bar, timers, threads>>
        ELSE /\ config_sample_rate' = config_sample_rate
             /\ progress_bar' = TRUE
             /\ analyze_button' = FALSE
             /\ load_button' = FALSE
             /\ threads' = Append(threads, NewThread(option))
             /\ timers' = Append(timers, TRUE)

\* AnalysisTab.run_analysis on a click of the Run Analysis button
run_analysis ==
    /\ analyze_button
    /\ Len(threads) < MaxRuns
    /\ StartRun(current_image, current_video, is_gif /\ Len(gif_frames) > 0,
                analyze_option)
    /\ UNCHANGED <<mediaVars, analyze_option, analysis_results, null_frame_ops,
                   current_analysis>>
    /\ UNCHANGED <<scanVars, fnVars, bufVars, restVars>>

\* MainWindow.analyze_current on the toolbar's Analyze action, which is never
\* disabled.  On the capture tab a captured image goes through set_image
\* (clear(), then the copy of the image) before run_analysis; on another tab
\* run_analysis is called as it is.
analyze_current ==
    /\ Len(threads) < MaxRuns
    /\ \/ \E image \in {None, Some(DimFrame)} :
            IF image # None
            THEN /\ current_image' = image
                 /\ is_gif' = FALSE
                 /\ gif_frames' = <<>>
                 /\ current_video' = None
                 /\ analysis_results' = None
                 /\ analyze_option' = "frame"
                 /\ LET ths == IF current_video # None
                               THEN ReleaseCapture(threads) ELSE threads
                    IN  /\ config_sample_rate' = config_sample_rate
                        /\ progress_bar' = TRUE
                        /\ analyze_button' = FALSE
                        /\ load_button' = FALSE
                        /\ threads' = Append(ths, NewThread("frame"))
                        /\ timers' = Append(timers, TRUE)
            ELSE UNCHANGED uiVars
       \/ /\ StartRun(current_image, current_video,
                       is_gif /\ Len(gif_frames) > 0, analyze_option)
          /\ UNCHANGED <<mediaVars, analyze_option, analysis_results>>
    /\ UNCHANGED <<null_frame_ops, current_analysis>>
    /\ UNCHANGED <<scanVars, fnVars, bufVars, restVars>>

\* ResultsTab.display_analysis(analysis_data), the slot of analysis_complete:
\* the marked frame is copied without a test for None
display_analysis(analysis_data, ops) ==
    IF analysis_data.brightest_frame_marked = None
    THEN [current_analysis |-> Some(analysis_data),
          null_frame_ops |-> ops \cup {"display_analysis"}]
    ELSE [current_analysis |-> Some(analysis_data), null_frame_ops |-> ops]

\* AnalysisTab.update_progress, the slot of every timer run_analysis made.
\* At 100 it stops progress_timer, the timer made last, and shows what
\* analysis_results holds; draw_brightest_point copies the frame without a
\* test for None and the exception ends the slot there.
update_progress ==
    /\ \E i \in DOMAIN timers : timers[i]
    /\ IF progress >= 100
       THEN /\ timers' = [timers EXCEPT ![Len(timers)] = FALSE]
            /\ progress_bar' = FALSE
            /\ analyze_button' = TRUE
            /\ load_button' = TRUE
            /\ IF analysis_results # None
               THEN IF analysis_results[1].brightest_frame = None
                    THEN /\ null_frame_ops' =
                                null_frame_ops \cup {"draw_brightest_point"}
                         /\ UNCHANGED current_analysis
                    ELSE LET shown == display_analysis(analysis_results[1],
                                                       null_frame_ops)
                         IN  /\ current_analysis' = shown.current_analysis
                             /\ null_frame_ops' = shown.null_frame_ops
               ELSE UNCHANGED <<null_frame_ops, current_analysis>>
       ELSE UNCHANGED <<timers, progress_bar, analyze_button, load_button,
                        null_frame_ops, current_analysis>>
    /\ UNCHANGED <<mediaVars, analyze_option, config_sample_rate,
                   analysis_results, threads>>
    /\ UNCHANGED <<scanVars, fnVars, bufVars, restVars>>

\* what a worker step leaves alone besides the thread, progress and what it
\* names
WorkerRest ==
    /\ UNCHANGED <<is_gif, gif_frames, current_image, widgetVars,
                   config_sample_rate, timers, current_analysis>>
    /\ UNCHANGED <<scanRest, fnVars, bufVars, restVars>>

\* _run_analysis_thread up to the analyzer call: the branch is chosen on what
\* the tab holds now; a video is rewound, by the thread and again by
\* analyze_video, whose total_frames is what the capture reports
thread_begin ==
    \E t \in DOMAIN threads :
    /\ threads[t].pc = "start"
    /\ IF threads[t].analysis_type = "frame"
       THEN IF current_image # None
            THEN /\ threads' = [threads EXCEPT ![t].pc = "analyze_image",
                                               ![t].source = "image",
                                               ![t].frames = <<current_image[1]>>]
                 /\ progress' = 0
            ELSE /\ threads' = [threads EXCEPT ![t] = Finished(threads[t])]
                 /\ UNCHANGED progress
       ELSE IF current_video # None
            THEN /\ threads' = [threads EXCEPT
                                    ![t].pc = "video_loop",
                                    ![t].source = "video",
                                    ![t].sample_rate = config_sample_rate,
                                    ![t].total_frames = current_video[1].frame_count]
                 /\ progress' = 0
            ELSE IF is_gif /\ Len(gif_frames) > 0
            THEN /\ threads' = [threads EXCEPT
                                    ![t].pc = "gif_loop",
                                    ![t].source = "gif",
                                    ![t].frames = gif_frames,
                                    ![t].sample_rate = config_sample_rate,
                                    ![t].total_frames = Len(gif_frames)]
                 /\ progress' = 0
            ELSE /\ threads' = [threads EXCEPT ![t] = Finished(threads[t])]
                 /\ UNCHANGED progress
    /\ current_video' =
            IF threads[t].analysis_type # "frame" /\ current_video # None
            THEN Some([current_video[1] EXCEPT !.pos = 0])
            ELSE current_video
    /\ UNCHANGED <<analysis_results, null_frame_ops>>
    /\ WorkerRest

\* analyze_image on the tab's image
thread_analyze_image ==
    \E t \in DOMAIN threads :
    /\ threads[t].pc = "analyze_image"
    /\ threads' = [threads EXCEPT
                      ![t].pc = "set_progress",
                      ![t].result = Some([run |-> t,
                                          brightest_frame |-> Some(0),
                                          brightest_frame_marked |-> Some(0)])]
    /\ UNCHANGED <<progress, current_video, analysis_results, null_frame_ops>>
    /\ WorkerRest

\* the thread's locals after the frame with index th.frame_count
ThreadEvaluate(th, frame) ==
    LET max_brightness == NpMax(calculate_brightness(frame))
    IN  IF IsSampled(th.frame_count, th.sample_rate)
           /\ IsBrighter(max_brightness, th.global_max_brightness)
        THEN [th EXCEPT !.global_max_brightness = max_brightness,
                        !.global_brightest_frame = Some(th.frame_count),
                        !.frame_count = @ + 1]
        ELSE [th EXCEPT !.frame_count = @ + 1]

\* the thread at the return of analyze_video or analyze_gif
ThreadReturn(th, t) ==
    [th EXCEPT !.pc = "set_progress",
               !.result = Some([run |-> t,
                                brightest_frame |-> th.global_brightest_frame,
                                brightest_frame_marked |-> th.global_brightest_frame])]

\* one turn of the loop of analyze_video: read() on the capture the tab
\* holds, which gives nothing once the capture is released or at its end
thread_video_frame ==
    \E t \in DOMAIN threads :
    /\ threads[t].pc = "video_loop"
    /\ IF threads[t].released \/ current_video[1].pos >= Len(current_video[1].frames)
       THEN /\ threads' = [threads EXCEPT ![t] = ThreadReturn(threads[t], t)]
            /\ current_video' =
                    IF threads[t].released THEN current_video
                    ELSE Some([current_video[1] EXCEPT !.pos = 0])
            /\ UNCHANGED progress
       ELSE /\ current_video' = Some([current_video[1] EXCEPT !.pos = @ + 1])
            /\ IF threads[t].total_frames = 0
               THEN \* ZeroDivisionError, caught by the thread's except
                    /\ threads' = [threads EXCEPT ![t] = Finished(threads[t])]
                    /\ UNCHANGED progress
               ELSE /\ progress' = ProgressPercent(threads[t].frame_count,
                                                   threads[t].total_frames)
                    /\ threads' =
                        [threads EXCEPT ![t] =
                            ThreadEvaluate(threads[t],
                                CvtColorBGR2RGB(
                                    current_video[1].frames[current_video[1].pos + 1]))]
    /\ UNCHANGED <<analysis_results, null_frame_ops>>
    /\ WorkerRest

\* one turn of the loop of analyze_gif over the list the thread was given
thread_gif_frame ==
    \E t \in DOMAIN threads :
    /\ threads[t].pc = "gif_loop"
    /\ IF threads[t].frame_count >= Len(threads[t].frames)
       THEN /\ threads' = [threads EXCEPT ![t] = ThreadReturn(threads[t], t)]
            /\ UNCHANGED progress
       ELSE /\ progress' = ProgressPercent(threads[t].frame_count,
                                           threads[t].total_frames)
            /\ threads' =
                [threads EXCEPT ![t] =
                    ThreadEvaluate(threads[t],
                                   threads[t].frames[threads[t].frame_count + 1])]
    /\ UNCHANGED <<current_video, analysis_results, null_frame_ops>>
    /\ WorkerRest

\* self.analyzer.progress = 100
thread_set_progress ==
    \E t \in DOMAIN threads :
    /\ threads[t].pc = "set_progress"
    /\ progress' = 100
    /\ threads' = [threads EXCEPT ![t].pc = "store"]
    /\ UNCHANGED <<current_video, analysis_results, null_frame_ops>>
    /\ WorkerRest

\* self.analysis_results = result
thread_store ==
    \E t \in DOMAIN threads :
    /\ threads[t].pc = "store"
    /\ analysis_results' = threads[t].result
    /\ threads' = [threads EXCEPT ![t] =
                      IF threads[t].source = "gif"
                      THEN [threads[t] EXCEPT !.pc = "preview"]
                      ELSE Finished(threads[t])]
    /\ UNCHANGED <<progress, current_video, null_frame_ops>>
    /\ WorkerRest

\* the GIF branch's update_preview(result['brightest_frame']), which reads
\* frame.shape without a test for None
thread_preview ==
    \E t \in DOMAIN threads :
    /\ threads[t].pc = "preview"
    /\ null_frame_ops' =
            IF threads[t].result[1].brightest_frame = None
            THEN null_frame_ops \cup {"update_preview"}
            ELSE null_frame_ops
    /\ threads' = [threads EXCEPT ![t] = Finished(threads[t])]
    /\ UNCHANGED <<progress, current_video, analysis_results>>
    /\ WorkerRest

NextUi ==
    \/ clear
    \/ load_media
    \/ select_analyze_option
    \/ run_analysis
    \/ analyze_current
    \/ update_progress
    \/ thread_begin
    \/ thread_analyze_image
    \/ thread_video_frame
    \/ thread_gif_frame
    \/ thread_set_progress
    \/ thread_store
    \/ thread_preview

InitTab ==
    /\ InitScanIdle
    /\ InitFn
    /\ InitBufIdle
    /\ InitUi
    /\ InitRestIdle

SpecUi == InitTab /\ [][NextUi]_vars

\* a step of a worker thread
WorkerStep ==
    \/ thread_begin
    \/ thread_analyze_image
    \/ thread_video_frame
    \/ thread_gif_frame
    \/ thread_set_progress
    \/ thread_store
    \/ thread_preview

\* the tab with its worker threads and its progress timer kept scheduled: a
\* started thread runs to its end and an active QTimer keeps firing; what the
\* user does is up to the user
SpecUiFair ==
    /\ InitTab
    /\ [][NextUi]_vars
    /\ WF_vars(WorkerStep)
    /\ WF_vars(update_progress)

---------------------------------------------------------------------------
(* The camera backends: CVCamera, RPiCamera, SimCamera *)

\* what a camera method leaves and returns; ret is "True", "False", "None",
\* "frame", or "Exception" when the method raises
Gives(c, returned) == [camera |-> c, ret |-> returned]

\* the value an earlier statement left, taken once: the element of {v}
TheOne(S) == CHOOSE v \in S : TRUE

\* cv2.VideoWriter(file_path, ...) or FfmpegOutput(file_path) is opened
OpenWriter(c, path) == [c EXCEPT !.open_writers = @ \cup {path}]

\* the writer or output on path is released
ReleaseWriter(c, path) == [c EXCEPT !.open_writers = @ \ {path}]

\* CVCamera.stop_recording
CV_stop_recording(c) ==
    IF ~c.recording \/ c.video_writer = None
    THEN Gives(c, "False")
    ELSE Gives([ReleaseWriter(c, c.video_writer[1]) EXCEPT
                    !.recording = FALSE, !.video_writer = None],
               "True")

\* CVCamera.release
CV_release(c) ==
    LET c1 == IF c.recording THEN CV_stop_recording(c).camera ELSE c
    IN  Gives([c1 EXCEPT !.device = "none"], "None")

\* CVCamera.select_camera with an index of the selector (below 100)
CV_select_camera(c) ==
    LET c1 == IF c.device # "none" THEN CV_release(c).camera ELSE c
    IN  IF c1.simulation_mode
        THEN Gives(c1, "True")
        ELSE IF c1.available
             THEN Gives([c1 EXCEPT !.device = "open"], "True")
             ELSE Gives([c1 EXCEPT !.device = "closed", !.simulation_mode = TRUE],
                        "True")

\* CVCamera.start_stream
CV_start_stream(c) ==
    IF c.simulation_mode
    THEN Gives([c EXCEPT !.stream_active = TRUE], "None")
    ELSE LET c1 == IF c.device = "none" THEN CV_select_camera(c).camera ELSE c
         IN  IF c1.device # "open"
             THEN Gives([c1 EXCEPT !.simulation_mode = TRUE,
                                   !.stream_active = TRUE], "None")
             ELSE Gives([c1 EXCEPT !.stream_active = TRUE], "None")

\* CVCamera.stop_stream
CV_stop_stream(c) == Gives([c EXCEPT !.stream_active = FALSE], "None")

\* CVCamera.get_frame; read_ok is whether VideoCapture.read() gives a frame
CV_get_frame(c, read_ok) ==
    IF ~c.stream_active THEN Gives(c, "None")
    ELSE IF c.simulation_mode THEN Gives(c, "frame")
    ELSE IF c.device = "none" THEN Gives(c, "None")
    ELSE IF read_ok THEN Gives(c, "frame")
    ELSE Gives([c EXCEPT !.simulation_mode = TRUE], "frame")

\* CVCamera.capture_image
CV_capture_image(c, read_ok) ==
    IF c.simulation_mode
    THEN Gives(c, "frame")
    ELSE LET c1 == IF c.device = "none" THEN CV_select_camera(c).camera ELSE c
         IN  IF c1.device # "open" \/ ~read_ok
             THEN Gives([c1 EXCEPT !.simulation_mode = TRUE], "frame")
             ELSE Gives(c1, "frame")

\* CVCamera.start_recording
CV_start_recording(c, path) ==
    IF c.recording
    THEN Gives(c, "False")
    ELSE LET c1 == IF ~c.simulation_mode /\ c.device # "open"
                   THEN [c EXCEPT !.simulation_mode = TRUE]
                   ELSE c
             c2 == [OpenWriter(c1, path) EXCEPT !.video_writer = Some(path),
                                                !.recording = TRUE]
             c3 == IF ~c2.stream_active THEN CV_start_stream(c2).camera ELSE c2
         IN  Gives(c3, "True")

\* CVCamera.set_resolution
CV_set_resolution(c, resolution) ==
    LET c1 == [c EXCEPT !.resolution = resolution]
    IN  IF c1.simulation_mode THEN Gives(c1, "True")
        ELSE IF c1.device = "none" THEN Gives(c1, "False")
        ELSE Gives(c1, "True")

\* RPiCamera._init_camera
RPi_init_camera(c) ==
    [c EXCEPT !.device = IF c.available THEN "open" ELSE "none"]

\* RPiCamera.start_stream; ok is whether Picamera2.start() succeeds
RPi_start_stream(c, ok) ==
    LET c1 == IF c.device = "none" THEN RPi_init_camera(c) ELSE c
    IN  IF c1.device = "none"
        THEN Gives(c1, "False")
        ELSE IF ok
             THEN Gives([c1 EXCEPT !.stream_active = TRUE], "True")
             ELSE Gives([c1 EXCEPT !.stream_active = FALSE], "False")

\* RPiCamera.stop_stream
RPi_stop_stream(c) ==
    IF c.device = "none" \/ ~c.stream_active
    THEN Gives(c, "None")
    ELSE Gives([c EXCEPT !.stream_active = FALSE], "None")

\* RPiCamera.get_frame
RPi_get_frame(c) ==
    IF c.device = "none" \/ ~c.stream_active
    THEN Gives(c, "None")
    ELSE Gives(c, "frame")

\* RPiCamera.capture_image
RPi_capture_image(c) ==
    LET c1 == IF c.device = "none" THEN RPi_init_camera(c) ELSE c
    IN  IF c1.device = "none"
        THEN Gives(c1, "Exception")
        ELSE Gives(c1, "frame")

\* RPiCamera.start_recording and _start_opencv_recording; ok is whether
\* Picamera2.start_recording(encoder, output) succeeds
RPi_start_recording(c, path, ok) ==
    IF c.device = "none" \/ c.recording
    THEN Gives(c, "False")
    ELSE LET c1 == [c EXCEPT !.recording_path = Some(path),
                             !.stream_active = TRUE]
         IN  IF ok
             THEN Gives([OpenWriter(c1, path) EXCEPT
                            !.recording = TRUE,
                            !.using_picamera_recording = TRUE], "True")
             ELSE Gives([OpenWriter(c1, path) EXCEPT
                            !.video_writer = Some(path),
                            !.recording = TRUE,
                            !.using_picamera_recording = FALSE], "True")

\* RPiCamera.stop_recording
RPi_stop_recording(c) ==
    IF ~c.recording
    THEN Gives(c, "False")
    ELSE LET c1 == IF c.using_picamera_recording
                   THEN IF c.device # "none"
                        THEN ReleaseWriter(c, c.recording_path[1])
                        ELSE c
                   ELSE IF c.video_writer # None
                        THEN [ReleaseWriter(c, c.video_writer[1]) EXCEPT
                                !.video_writer = None]
                        ELSE c
         IN  Gives([c1 EXCEPT !.recording = FALSE,
                              !.using_picamera_recording = FALSE], "True")

\* RPiCamera.set_resolution
RPi_set_resolution(c, resolution, ok) ==
    IF c.device = "none"
    THEN Gives([c EXCEPT !.resolution = resolution], "False")
    ELSE LET streaming == c.stream_active
             recording_ == c.recording
             c1 == IF streaming THEN RPi_stop_stream(c).camera ELSE c
             c2 == IF recording_ THEN RPi_stop_recording(c1).camera ELSE c1
             c3 == [c2 EXCEPT !.resolution = resolution]
             c4 == IF streaming THEN RPi_start_stream(c3, ok).camera ELSE c3
         IN  Gives(c4, "True")

\* RPiCamera.release
RPi_release(c) ==
    LET c1 == IF c.recording THEN RPi_stop_recording(c).camera ELSE c
        c2 == IF c1.stream_active THEN RPi_stop_stream(c1).camera ELSE c1
        c3 == IF c2.video_writer # None
              THEN [ReleaseWriter(c2, c2.video_writer[1]) EXCEPT
                        !.video_writer = None]
              ELSE c2
    IN  Gives([c3 EXCEPT !.device = "none"], "None")

\* RPiCamera.select_camera; ok is whether Picamera2(camera_index) and its
\* configuration succeed
RPi_select_camera(c, ok) ==
    IF ~c.available
    THEN Gives(c, "False")
    ELSE LET c1 == IF c.device # "none" THEN RPi_release(c).camera ELSE c
         IN  IF ok
             THEN Gives([c1 EXCEPT !.device = "open"], "True")
             ELSE Gives(c1, "False")

\* SimCamera.start_stream
Sim_start_stream(c) == Gives([c EXCEPT !.stream_active = TRUE], "True")

\* SimCamera.stop_stream
Sim_stop_stream(c) == Gives([c EXCEPT !.stream_active = FALSE], "None")

\* SimCamera.start_recording: the writer it held is replaced, not released
Sim_start_recording(c, path) ==
    Gives([OpenWriter(c, path) EXCEPT !.recording = TRUE,
                                     !.recording_path = Some(path),
                                     !.video_writer = Some(path)], "True")

\* SimCamera.stop_recording
Sim_stop_recording(c) ==
    LET c1 == [c EXCEPT !.recording = FALSE]
    IN  IF c1.video_writer # None
        THEN Gives([ReleaseWriter(c1, c1.video_writer[1]) EXCEPT
                        !.video_writer = None], "None")
        ELSE Gives(c1, "None")

\* SimCamera.set_resolution
Sim_set_resolution(c, resolution) ==
    Gives([c EXCEPT !.resolution = resolution], "None")

\* the method of the object's class
StartStream(c, ok) ==
    TheOne({
        CASE o.class = "CVCamera" -> CV_start_stream(o)
          [] o.class = "RPiCamera" -> RPi_start_stream(o, ok)
          [] o.class = "SimCamera" -> Sim_start_stream(o)
        : o \in {c} })

StopStream(c) ==
    TheOne({
        CASE o.class = "CVCamera" -> CV_stop_stream(o)
          [] o.class = "RPiCamera" -> RPi_stop_stream(o)
          [] o.class = "SimCamera" -> Sim_stop_stream(o)
        : o \in {c} })

StartRecording(c, path, ok) ==
    TheOne({
        CASE o.class = "CVCamera" -> CV_start_recording(o, path)
          [] o.class = "RPiCamera" -> RPi_start_recording(o, path, ok)
          [] o.class = "SimCamera" -> Sim_start_recording(o, path)
        : o \in {c} })

StopRecording(c) ==
    TheOne({
        CASE o.class = "CVCamera" -> CV_stop_recording(o)
          [] o.class = "RPiCamera" -> RPi_stop_recording(o)
          [] o.class = "SimCamera" -> Sim_stop_recording(o)
        : o \in {c} })

SetResolution(c, resolution, ok) ==
    TheOne({
        CASE o.class = "CVCamera" -> CV_set_resolution(o, resolution)
          [] o.class = "RPiCamera" -> RPi_set_resolution(o, resolution, ok)
          [] o.class = "SimCamera" -> Sim_set_resolution(o, resolution)
        : o \in {c} })

\* CaptureTab's Camera is CVCamera or RPiCamera
SelectCamera(c, ok) ==
    TheOne({
        CASE o.class = "CVCamera" -> CV_select_camera(o)
          [] o.class = "RPiCamera" -> RPi_select_camera(o, ok)
        : o \in {c} })

GetFrame(c, read_ok) ==
    TheOne({
        CASE o.class = "CVCamera" -> CV_get_frame(o, read_ok)
          [] o.class = "RPiCamera" -> RPi_get_frame(o)
        : o \in {c} })

CaptureImage(c, read_ok) ==
    TheOne({
        CASE o.class = "CVCamera" -> CV_capture_image(o, read_ok)
          [] o.class = "RPiCamera" -> RPi_capture_image(o)
        : o \in {c} })

\* the targets toggle_recording names by the time of day
RecordingPaths == {"video_1", "video_2"}

\* the methods called on a camera object, one at a time
camera_start_stream ==
    /\ \E ok \in BOOLEAN :
        LET r == StartStream(camera, ok)
        IN  /\ camera' = r.camera
            /\ camera_call' = [op |-> "start_stream", ret |-> r.ret]
    /\ UNCHANGED capture_tab
    /\ UNCHANGED <<scanVars, fnVars, bufVars, uiVars, configVars>>

camera_stop_stream ==
    /\ LET r == StopStream(camera)
       IN  /\ camera' = r.camera
           /\ camera_call' = [op |-> "stop_stream", ret |-> r.ret]
    /\ UNCHANGED capture_tab
    /\ UNCHANGED <<scanVars, fnVars, bufVars, uiVars, configVars>>

camera_start_recording ==
    /\ \E path \in RecordingPaths, ok \in BOOLEAN :
        LET r == StartRecording(camera, path, ok)
        IN  /\ camera' = r.camera
            /\ camera_call' = [op |-> "start_recording", ret |-> r.ret]
    /\ UNCHANGED capture_tab
    /\ UNCHANGED <<scanVars, fnVars, bufVars, uiVars, configVars>>

camera_stop_recording ==
    /\ LET r == StopRecording(camera)
       IN  /\ camera' = r.camera
           /\ camera_call' = [op |-> "stop_recording", ret |-> r.ret]
    /\ UNCHANGED capture_tab
    /\ UNCHANGED <<scanVars, fnVars, bufVars, uiVars, configVars>>

camera_set_resolution ==
    /\ \E resolution \in Resolutions, ok \in BOOLEAN :
        LET r == SetResolution(camera, resolution, ok)
        IN  /\ camera' = r.camera
            /\ camera_call' = [op |-> "set_resolution", ret |-> r.ret]
    /\ UNCHANGED capture_tab
    /\ UNCHANGED <<scanVars, fnVars, bufVars, uiVars, configVars>>

InitCamera ==
    /\ InitScanIdle
    /\ InitFn
    /\ InitBufIdle
    /\ InitUi
    /\ camera \in {Camera("CVCamera", a, s) : a \in BOOLEAN, s \in BOOLEAN}
                  \cup {Camera("RPiCamera", a, FALSE) : a \in BOOLEAN}
                  \cup {Camera("SimCamera", TRUE, FALSE)}
    /\ InitCaptureTab
    /\ camera_call = NoCameraCall
    /\ InitConfigIdle

NextCamera ==
    \/ camera_start_stream
    \/ camera_stop_stream
    \/ camera_start_recording
    \/ camera_stop_recording
    \/ camera_set_resolution

SpecCamera == InitCamera /\ [][NextCamera]_vars

---------------------------------------------------------------------------
(* CaptureTab over its camera *)

\* the tab with its camera
Tab(t, c) == [tab |-> t, camera |-> c]

\* CaptureTab.toggle_stream
ToggleStream(st, ok) ==
    TheOne({
        IF s.tab.stream_active
        THEN Tab([s.tab EXCEPT !.stream_active = FALSE],
                 StopStream(s.camera).camera)
        ELSE TheOne({
                IF r.ret = "Exception"
                THEN Tab(s.tab, r.camera)
                ELSE Tab([s.tab EXCEPT !.stream_active = TRUE], r.camera)
                : r \in {StartStream(s.camera, ok)} })
        : s \in {st} })

\* CaptureTab.toggle_recording
ToggleRecording(st, path, ok) ==
    TheOne({
        IF s.tab.recording
        THEN Tab([s.tab EXCEPT !.recording = FALSE],
                 StopRecording(s.camera).camera)
        ELSE TheOne({
                Tab([s2.tab EXCEPT !.recording = TRUE],
                    StartRecording(s2.camera, path, ok).camera)
                : s2 \in {IF ~s.tab.stream_active
                          THEN ToggleStream(
                                   Tab([s.tab EXCEPT !.recording_path = Some(path)],
                                       s.camera), ok)
                          ELSE Tab([s.tab EXCEPT !.recording_path = Some(path)],
                                   s.camera)} })
        : s \in {st} })

toggle_stream ==
    /\ \E ok \in BOOLEAN :
        LET st == ToggleStream(Tab(capture_tab, camera), ok)
        IN  /\ capture_tab' = st.tab
            /\ camera' = st.camera
    /\ UNCHANGED camera_call
    /\ UNCHANGED <<scanVars, fnVars, bufVars, uiVars, configVars>>

toggle_recording ==
    /\ \E path \in RecordingPaths, ok \in BOOLEAN :
        LET st == ToggleRecording(Tab(capture_tab, camera), path, ok)
        IN  /\ capture_tab' = st.tab
            /\ camera' = st.camera
    /\ UNCHANGED camera_call
    /\ UNCHANGED <<scanVars, fnVars, bufVars, uiVars, configVars>>

\* CaptureTab.update_frame, on a timeout of the stream timer
update_frame ==
    /\ capture_tab.stream_active
    /\ \E read_ok \in BOOLEAN :
        camera' = GetFrame(camera, read_ok).camera
    /\ UNCHANGED <<capture_tab, camera_call>>
    /\ UNCHANGED <<scanVars, fnVars, bufVars, uiVars, configVars>>

\* CaptureTab.capture_image: a stream started for the capture is stopped
\* after it, unless the capture raised
capture_image ==
    /\ \E ok \in BOOLEAN :
        LET temp_stream == ~capture_tab.stream_active
        IN  \E c1 \in {IF temp_stream
                       THEN StartStream(camera, ok).camera
                       ELSE camera} :
            \E r \in {CaptureImage(c1, ok)} :
                camera' = IF r.ret # "Exception" /\ temp_stream
                          THEN StopStream(r.camera).camera
                          ELSE r.camera
    /\ UNCHANGED <<capture_tab, camera_call>>
    /\ UNCHANGED <<scanVars, fnVars, bufVars, uiVars, configVars>>

\* CaptureTab.change_camera
change_camera ==
    /\ \E path \in RecordingPaths, ok \in BOOLEAN :
        LET was_streaming == capture_tab.stream_active
            was_recording == capture_tab.recording
        IN  \E st1 \in {IF capture_tab.stream_active
                        THEN ToggleStream(Tab(capture_tab, camera), ok)
                        ELSE Tab(capture_tab, camera)} :
            \E st2 \in {IF st1.tab.recording
                        THEN ToggleRecording(st1, path, ok)
                        ELSE st1} :
            \E st3 \in {Tab(st2.tab, SelectCamera(st2.camera, ok).camera)} :
            \E st4 \in {IF was_streaming THEN ToggleStream(st3, ok) ELSE st3} :
            \E st5 \in {IF was_recording
                        THEN ToggleRecording(st4, path, ok)
                        ELSE st4} :
                /\ capture_tab' = st5.tab
                /\ camera' = st5.camera
    /\ UNCHANGED camera_call
    /\ UNCHANGED <<scanVars, fnVars, bufVars, uiVars, configVars>>

\* CaptureTab.change_resolution
change_resolution ==
    /\ \E resolution \in Resolutions, ok \in BOOLEAN :
        camera' = SetResolution(camera, resolution, ok).camera
    /\ UNCHANGED <<capture_tab, camera_call>>
    /\ UNCHANGED <<scanVars, fnVars, bufVars, uiVars, configVars>>

\* CaptureTab.__init__ and init_camera: Camera is RPiCamera when IS_RPI is
\* set, CVCamera otherwise
InitCapture ==
    /\ InitScanIdle
    /\ InitFn
    /\ InitBufIdle
    /\ InitUi
    /\ camera \in {Camera("CVCamera", a, s) : a \in BOOLEAN, s \in BOOLEAN}
                  \cup {Camera("RPiCamera", a, FALSE) : a \in BOOLEAN}
    /\ InitCaptureTab
    /\ camera_call = NoCameraCall
    /\ InitConfigIdle

NextCapture ==
    \/ toggle_stream
    \/ toggle_recording
    \/ update_frame
    \/ capture_image
    \/ change_camera
    \/ change_resolution

SpecCapture == InitCapture /\ [][NextCapture]_vars

---------------------------------------------------------------------------
(* utils.config and MainWindow.open_file *)

\* dict.update(values): the keys of values are set, the others stay
DictUpdate(dict, values) ==
    [k \in DOMAIN dict \cup DOMAIN values |->
        IF k \in DOMAIN values THEN values[k] ELSE dict[k]]

\* config[section].update(values) for every section the config has
UpdateSections(config, updates) ==
    [section \in DOMAIN config |->
        IF section \in DOMAIN updates
        THEN DictUpdate(config[section], updates[section])
        ELSE config[section]]

\* a config file that json.load accepts, and one it rejects
ValidFile(content) == Some([valid |-> TRUE, content |-> content])

CorruptFile == Some([valid |-> FALSE, content |-> OriginalDefaults])

\* save_config: json.dump of the config into the file
save_config(config) == ValidFile(config)

\* load_config.  DEFAULT_CONFIG.copy() copies the top-level dict only, so the
\* sections of the merged config are the section objects of DEFAULT_CONFIG and
\* update() writes into those; without a readable file DEFAULT_CONFIG itself
\* is saved and returned.  defaults is what DEFAULT_CONFIG holds at the call;
\* the returned config holds what DEFAULT_CONFIG holds after it.
load_config(file, defaults) ==
    IF file # None /\ file[1].valid
    THEN [file |-> file,
          defaults |-> UpdateSections(defaults, file[1].content),
          returned |-> "merged"]
    ELSE [file |-> save_config(defaults),
          defaults |-> defaults,
          returned |-> "default"]

\* update_config: the loaded config's sections, which are DEFAULT_CONFIG's,
\* are updated and the config is saved
update_config(file, defaults, updates) ==
    TheOne({
        [file |-> save_config(UpdateSections(loaded.defaults, updates)),
         defaults |-> UpdateSections(loaded.defaults, updates),
         returned |-> loaded.returned]
        : loaded \in {load_config(file, defaults)} })

\* recent.remove(file_path): the first occurrence goes
RECURSIVE RemoveFirst(_, _)
RemoveFirst(recent, path) ==
    IF Len(recent) = 0 THEN recent
    ELSE IF recent[1] = path THEN Tail(recent)
    ELSE <<recent[1]>> \o RemoveFirst(Tail(recent), path)

\* an open_file that keeps every entry
KeepMostRecent_All(recent) == recent

\* recent[:10]
KeepMostRecent(recent) == SubSeq(recent, 1, Min2(Len(recent), RecentLimit))

\* the opening times of earlier sessions, read off a recent_files list: its
\* first entry was opened last
OpenedBefore(recent) ==
    [p \in AllPaths |->
        IF \E i \in 1..Len(recent) : recent[i] = p
        THEN 0 - (CHOOSE i \in 1..Len(recent) : recent[i] = p)
        ELSE Never]

\* the recent_files lists earlier sessions can have left: none, one short of
\* the limit, and full
RecentLists == {<<>>, SubSeq(FullList, 1, RecentLimit - 1), FullList}

\* the config files the program can find: none, one that is not JSON, one
\* with a section only, and the files it wrote itself
ConfigFiles ==
    {None, CorruptFile, ValidFile([analysis |-> [sample_rate |-> 2]])}
    \cup {ValidFile([OriginalDefaults EXCEPT !.ui.recent_files = recent])
            : recent \in RecentLists}

\* the recent_files list of a config file
RecentOf(file) ==
    IF file # None /\ file[1].valid /\ "ui" \in DOMAIN file[1].content
    THEN file[1].content.ui.recent_files
    ELSE <<>>

\* the paths the dialog's user opens: the first and the last of the full
\* list and the two new ones
OpenablePaths == {"f1", "f10", "g1", "g2"}

MaxOpens == 4

\* main: config = load_config(), handed to MainWindow
call_load_config ==
    /\ \E loaded \in {load_config(config_file, DEFAULT_CONFIG)} :
        /\ config_file' = loaded.file
        /\ DEFAULT_CONFIG' = loaded.defaults
        /\ window_config' = loaded.returned
    /\ UNCHANGED <<last_opened, opens>>
    /\ UNCHANGED <<scanVars, fnVars, bufVars, uiVars, captureVars>>

\* update_config({"camera": {"index": selected_index}}), as change_camera
\* calls it
call_update_config ==
    /\ window_config # "none"
    /\ \E index \in {0, 1} :
        \E updated \in {update_config(config_file, DEFAULT_CONFIG,
                                      [camera |-> [index |-> index]])} :
            /\ config_file' = updated.file
            /\ DEFAULT_CONFIG' = updated.defaults
    /\ UNCHANGED <<window_config, last_opened, opens>>
    /\ UNCHANGED <<scanVars, fnVars, bufVars, uiVars, captureVars>>

\* save_config(config) on the config the window holds, whose sections are
\* those of DEFAULT_CONFIG
call_save_config ==
    /\ window_config # "none"
    /\ config_file' = save_config(DEFAULT_CONFIG)
    /\ UNCHANGED <<DEFAULT_CONFIG, window_config, last_opened, opens>>
    /\ UNCHANGED <<scanVars, fnVars, bufVars, uiVars, captureVars>>

\* MainWindow.open_file with a file selected: load_media, then the recent
\* files.  recent is the list object inside self.config["ui"], which is
\* DEFAULT_CONFIG["ui"]: remove and insert change it in place, the slice is
\* a new list.
open_file ==
    /\ window_config # "none"
    /\ opens < MaxOpens
    /\ \E file_path \in OpenablePaths, file \in {m \in MediaFiles : m.type # "gif"} :
        /\ LoadMedia(file)
        /\ \E inserted \in {<<file_path>> \o
                                RemoveFirst(DEFAULT_CONFIG.ui.recent_files,
                                            file_path)} :
           \E updated \in {update_config(
                                config_file,
                                [DEFAULT_CONFIG EXCEPT !.ui.recent_files = inserted],
                                [ui |-> [recent_files |-> KeepMostRecent(inserted)]])} :
                /\ config_file' = updated.file
                /\ DEFAULT_CONFIG' = updated.defaults
        /\ last_opened' = [last_opened EXCEPT ![file_path] = opens + 1]
    /\ opens' = opens + 1
    /\ UNCHANGED window_config
    /\ UNCHANGED <<scanVars, fnVars, bufVars, captureVars>>

\* the program starts with the config file it finds and an imported
\* utils.config
InitConfig ==
    /\ InitScanIdle
    /\ InitFn
    /\ InitBufIdle
    /\ InitUi
    /\ InitCaptureIdle
    /\ config_file \in ConfigFiles
    /\ DEFAULT_CONFIG = OriginalDefaults
    /\ window_config = "none"
    /\ last_opened = OpenedBefore(RecentOf(config_file))
    /\ opens = 0

NextConfig ==
    \/ call_load_config
    \/ call_update_config
    \/ call_save_config
    \/ open_file

SpecConfig == InitConfig /\ [][NextConfig]_vars

---------------------------------------------------------------------------
(* Properties of the sequence scanner (specification Spec) *)

Ended == pc \in {"done", "raised"}

\* the source indices a stride selects: 0, N, 2N, ... below the source's length
StrideIndices == {i \in 0..(Len(frames) - 1) : i % sample_rate = 0}

\* the frame the scanner analyses at source index i: analyze_video hands on
\* the channel-swapped frame, analyze_gif the frame itself
AnalysedFrame(i) ==
    IF kind = "video" /\ frames[i + 1].channels = 3
    THEN CvtColorBGR2RGB(frames[i + 1])
    ELSE frames[i + 1]

\* the maximum brightness of the frame at source index i: the largest
\* channel sum of its pixels, in map units
RECURSIVE CellSum(_)
CellSum(c) == IF Len(c) = 0 THEN 0 ELSE c[1] + CellSum(Tail(c))

FrameBrightness(i) ==
    LET f == frames[i + 1]
        scale == IF f.channels = 3 THEN 1 ELSE BrightnessDenominator
    IN  {scale * CellSum(f.rows[y][x]) : y \in 1..Len(f.rows), x \in 1..Len(f.rows[1])}

FrameMax(i) == CHOOSE m \in FrameBrightness(i) : \A v \in FrameBrightness(i) : v <= m

IsStrictlyIncreasing(s) == \A i \in 1..(Len(s) - 1) : s[i] < s[i + 1]

SeqRange(s) == {s[i] : i \in 1..Len(s)}

\* C1: for every frame sequence and stride N >= 1 the scanner evaluates
\* exactly the frames at source indices 0, N, 2N, ...: no other frame is ever
\* passed to the brightness transform, and when the scan has ended every such
\* frame of the source has been evaluated.
C1_StrideSelectsFrames ==
    /\ SeqRange(evaluated) \subseteq StrideIndices
    /\ IsStrictlyIncreasing(evaluated)
    /\ Ended => SeqRange(evaluated) = StrideIndices

\* C2: for a non-empty source and stride N >= 1 the returned max_brightness is
\* the maximum, over the frames at multiples of N only, of the frames' maximum
\* brightness, and frame_number is a multiple of N whose frame attains it; a
\* skipped frame never wins.
C2_WinnerAmongEvaluated ==
    (pc = "done" /\ Len(frames) > 0) =>
        /\ \A i \in StrideIndices : FrameMax(i) <= result[1].max_brightness
        /\ \E i \in StrideIndices : FrameMax(i) = result[1].max_brightness
        /\ result[1].frame_number \in StrideIndices
        /\ FrameMax(result[1].frame_number) = result[1].max_brightness

\* a scan of three frames with stride 2 whose skipped frame 1 is brighter than
\* both evaluated frames has returned a winner among indices 0 and 2
C2_Witness ==
    /\ pc = "done"
    /\ Len(frames) = 3
    /\ sample_rate = 2
    /\ FrameMax(1) > FrameMax(0)
    /\ FrameMax(1) > FrameMax(2)
    /\ FrameMax(2) > FrameMax(0)
    /\ result[1].frame_number = 2

\* the evaluated indices whose frame attains the highest maximum brightness
\* among the evaluated frames
TopIndices ==
    {i \in StrideIndices : \A j \in StrideIndices : FrameMax(j) <= FrameMax(i)}

FirstTopIndex == CHOOSE i \in TopIndices : \A j \in TopIndices : i <= j

\* C3: when several evaluated frames share the highest maximum brightness,
\* the winner returned (its index, its frame and its brightest point) is the
\* one of them with the smallest source index.
C3_FirstOfTiesWins ==
    (pc = "done" /\ Cardinality(TopIndices) >= 2) =>
        /\ result[1].frame_number = FirstTopIndex
        /\ result[1].brightest_frame = Some(AnalysedFrame(FirstTopIndex))
        /\ result[1].brightest_point =
              find_brightest_point(calculate_brightness(AnalysedFrame(FirstTopIndex))).value

\* the record returned when no frame was retained
IsEmptyResult(r) ==
    /\ r.brightest_frame = None
    /\ r.brightest_frame_marked = None
    /\ r.average_brightness.num = 0
    /\ r.max_brightness = 0
    /\ \A i \in 1..HistogramBins : r.brightness_histogram[i] = 0

C5_NonEmptySourceHasWinner ==
    (pc = "done" /\ Len(frames) >= 1) =>
        /\ result[1].brightest_frame # None
        /\ result[1].brightest_frame_marked # None
        /\ ~IsEmptyResult(result[1])

\* what a scan that ran to the end of a source of n frames has pulled: the
\* frames 0 .. n-1 in order, each once, then one pull that gave no frame
FullPulls(n) ==
    [k \in 1..(n + 1) |-> [ret |-> (k <= n), index |-> k - 1]]

\* C6: a scan of a bounded source pulls the frames in strictly increasing
\* source order, each once, stops at the first pull on which the source
\* signals exhaustion, and then returns its result.  (An empty list given to
\* analyze_gif is refused before any pull: C4.)
C6_ScanRunsToExhaustion ==
    /\ \A k \in 1..Len(pulls) : pulls[k].index = k - 1
    /\ \A k \in 1..(Len(pulls) - 1) : pulls[k].ret
    /\ (Ended /\ ~(kind = "gif" /\ Len(frames) = 0)) =>
            /\ pc = "done"
            /\ pulls = FullPulls(Len(frames))
            /\ result # None

\* C7: throughout a scan progress is an integer percentage in 0..100 that
\* never decreases, also for a video whose reported frame count is zero or
\* is not the number of frames it yields.
C7_ProgressMonotoneInRange ==
    /\ progress \in 0..100
    /\ \A k \in 1..Len(progress_log) : progress_log[k] \in 0..100
    /\ \A k \in 1..(Len(progress_log) - 1) : progress_log[k] <= progress_log[k + 1]
    /\ error # "ZeroDivisionError"

---------------------------------------------------------------------------
(* Properties of the locator functions (specification SpecLocator) *)

\* point p is a cell of map b
InBounds(b, p) ==
    /\ 0 <= p[1] /\ p[1] < Width(b)
    /\ 0 <= p[2] /\ p[2] < Height(b)

At(b, p) == b[p[2] + 1][p[1] + 1]

PointsOf(b) == (0..(Width(b) - 1)) \X (0..(Height(b) - 1))

\* p comes no later than q in row-major order: smaller y, then smaller x
RowMajorLeq(p, q) == p[2] < q[2] \/ (p[2] = q[2] /\ p[1] <= q[1])

IsFirstMaximum(b, p) ==
    /\ InBounds(b, p)
    /\ \A q \in PointsOf(b) : At(b, q) <= At(b, p)
    /\ \A q \in PointsOf(b) : At(b, q) = At(b, p) => RowMajorLeq(p, q)

IsConstantMap(b) == \A p, q \in PointsOf(b) : At(b, p) = At(b, q)

\* C8: for every non-empty brightness map find_brightest_point returns an
\* in-bounds point holding the map's maximum, the first such point in
\* row-major order; for [[5,5],[1,1]] and for a constant map it is (0, 0).
C8_FirstMaximumRowMajor ==
    /\ find_brightest_point(<< <<5, 5>>, <<1, 1>> >>) = Return(<<0, 0>>)
    /\ (call.op = "find_brightest_point" /\ MapSize(brightness) > 0) =>
            /\ ret[1].raised = "none"
            /\ IsFirstMaximum(brightness, ret[1].value)
            /\ IsConstantMap(brightness) => ret[1].value = <<0, 0>>

\* the maximum is held by two cells of different rows and columns, the later
\* row holding it further left, so that row order and column order disagree
C8_Witness ==
    /\ call.op = "find_brightest_point"
    /\ brightness = << <<1, 5, 1>>, <<5, 1, 1>> >>
    /\ ret[1].value = <<1, 0>>

\* C9: for an empty or zero-sized brightness map find_brightest_point returns
\* the point (0, 0) and does not fail.
C9_EmptyMapGivesOrigin ==
    (call.op = "find_brightest_point" /\ MapSize(brightness) = 0) =>
        /\ ret[1].raised = "none"
        /\ ret[1].value = <<0, 0>>

\* the cells of the square window of radius r round p, clipped to the map
Window(b, p, r) ==
    {q \in PointsOf(b) :
        /\ Max2(0, p[1] - r) <= q[1] /\ q[1] <= Min2(Width(b) - 1, p[1] + r)
        /\ Max2(0, p[2] - r) <= q[2] /\ q[2] <= Min2(Height(b) - 1, p[2] + r)}

RECURSIVE SumOver(_, _)
SumOver(b, S) ==
    IF S = {} THEN 0
    ELSE LET q == CHOOSE q \in S : TRUE
         IN  At(b, q) + SumOver(b, S \ {q})

UniformTens == << <<10, 10, 10>>, <<10, 10, 10>>, <<10, 10, 10>> >>

\* C10: for every map, in-bounds centre and radius r >= 0 the local average is
\* the arithmetic mean of exactly the cells of the square window clipped to
\* the map; with r = 0 it is the value at the point, and on a uniform map it
\* is the uniform value also where the window is clipped (3 x 3 of 10s, point
\* (0, 0), radius 5: 10).
C10_MeanOfClippedWindow ==
    /\ LET m == calculate_average_brightness(UniformTens, <<0, 0>>, 5)
       IN  m.den = 9 /\ m.num = 10 * m.den
    /\ call.op = "calculate_average_brightness" =>
            LET m == ret[1].value
                w == Window(brightness, call.point, call.radius)
            IN  /\ m.den = Cardinality(w)
                /\ m.den > 0
                /\ m.num = SumOver(brightness, w)
                /\ call.radius = 0 =>
                        (m.den = 1 /\ m.num = At(brightness, call.point))
                /\ IsConstantMap(brightness) =>
                        m.num = At(brightness, call.point) * m.den

\* a window clipped on the left and at the top but not on the right, over a
\* map that is not uniform
C10_Witness ==
    /\ call.op = "calculate_average_brightness"
    /\ brightness = << <<5, 1, 1>>, <<1, 5, 1>> >>
    /\ call.point = <<0, 0>>
    /\ call.radius = 1
    /\ ret[1].value = [num |-> 12, den |-> 4]

\* the number of cells of map b that hold value v
CountOf(b, v) == Cardinality({p \in PointsOf(b) : At(b, p) = v})

\* the smallest and the largest value of a non-empty map
MapMin(b) == CHOOSE m \in Cells(b) : \A v \in Cells(b) : m <= v
MapMax(b) == CHOOSE m \in Cells(b) : \A v \in Cells(b) : v <= m

\* the bins of a histogram that are not empty, and the sum of all its counts
\* (empty bins add nothing)
NonZeroBins(hist) == {i \in 1..Len(hist) : hist[i] # 0}

RECURSIVE SumBins(_, _)
SumBins(hist, S) ==
    IF S = {} THEN 0
    ELSE LET i == CHOOSE i \in S : TRUE
         IN  hist[i] + SumBins(hist, S \ {i})

HistTotal(hist) == SumBins(hist, NonZeroBins(hist))

\* C11: for every non-empty brightness map calculate_histogram returns exactly
\* 256 counts, indexed from the darkest bin (0) to the brightest (255), whose
\* sum is width x height: every pixel is counted in exactly one bin.  The
\* darkest pixels are counted in bin 0 and, unless the map is constant, the
\* brightest in bin 255.
C11_HistogramCountsEveryPixel ==
    call.op = "calculate_histogram" =>
        LET hist == ret[1].value
        IN  /\ Len(hist) = 256
            /\ \A i \in 1..Len(hist) : hist[i] >= 0
            /\ HistTotal(hist) = Width(brightness) * Height(brightness)
            /\ hist[1] >= CountOf(brightness, MapMin(brightness))
            /\ ~IsConstantMap(brightness) =>
                    hist[256] >= CountOf(brightness, MapMax(brightness))

\* the histogram of a map whose two values fall in the two end bins
C11_Witness ==
    /\ call.op = "calculate_histogram"
    /\ brightness = << <<1, 5, 5>>, <<5, 1, 5>> >>
    /\ ret[1].value[1] = 2
    /\ ret[1].value[256] = 4

\* the brightness map of a 4 x 4 frame whose pixels are all (128, 128, 128)
MidGrayMap == [y \in 1..4 |-> [x \in 1..4 |-> 128 * BrightnessDenominator]]

\* C12: for a constant brightness map calculate_histogram puts all pixels in
\* one single bin: exactly one of the 256 counts is not zero and it is the
\* pixel count (4 x 4 of 128: one bin of 16, 255 bins of 0).
C12_ConstantMapSingleBin ==
    (call.op = "calculate_histogram" /\ IsConstantMap(brightness)) =>
        /\ LET hist == ret[1].value
           IN  /\ Len(hist) = 256
               /\ Cardinality(NonZeroBins(hist)) = 1
               /\ \A i \in NonZeroBins(hist) : hist[i] = MapSize(brightness)
        /\ LET hist == calculate_histogram(MidGrayMap)
           IN  /\ Len(hist) = 256
               /\ Cardinality(NonZeroBins(hist)) = 1
               /\ \A i \in NonZeroBins(hist) : hist[i] = 16

\* the histogram of a constant 2 x 3 map
C12_Witness ==
    /\ call.op = "calculate_histogram"
    /\ brightness = << <<5, 5, 5>>, <<5, 5, 5>> >>
    /\ ret[1].value[1] = 6

---------------------------------------------------------------------------
(* Properties of the frame operations (specification SpecFrames) *)

\* the positions of a frame's cells, 1-based, and whether all cells are c
CellsOf(image) ==
    {q \in (1..Len(image.rows)) \X (1..Len(image.rows[1])) : TRUE}

AllCells(image, c) == \A q \in CellsOf(image) : image.rows[q[1]][q[2]] = c

C14_UnitFactorIsIdentity ==
    (request.op = "enhance_contrast"
        /\ request.contrast_factor = [num |-> 1, den |-> 1]) =>
            /\ outcome[1].raised = "none"
            /\ heap[outcome[1].value] = heap[1]

\* a frame that is not constant, enhanced with factor 1.0
C14_Witness ==
    /\ request.op = "enhance_contrast"
    /\ request.contrast_factor = [num |-> 1, den |-> 1]
    /\ heap[1] = ColorFrame(<< <<Dim, Red>> >>)
    /\ heap[outcome[1].value] = ColorFrame(<< <<Dim, Red>> >>)

\* the channel positions of a frame and the sum of its channel values
ChannelsOf(image) ==
    {q \in (1..Len(image.rows)) \X (1..Len(image.rows[1])) \X (1..image.channels) :
        TRUE}

RECURSIVE SumChannels(_, _)
SumChannels(image, S) ==
    IF S = {} THEN 0
    ELSE LET q == CHOOSE q \in S : TRUE
         IN  image.rows[q[1]][q[2]][q[3]] + SumChannels(image, S \ {q})

\* C15: every output value of enhance_contrast is an integer in 0..255, the
\* value mean + factor * (input - mean) clamped to [0, 255], where mean is the
\* average of all channel values of the input: below 0 gives 0, above 255
\* gives 255, never a wrapped value; in between the fraction is dropped.
\* With mean = total / n and factor = num / den the value is
\* (den * total + num * (n * input - total)) / (den * n).
C15_OutputIsClamped ==
    request.op = "enhance_contrast" =>
        LET image == heap[1]
            enhanced == heap[outcome[1].value]
            factor == request.contrast_factor
            n == Cardinality(ChannelsOf(image))
            total == SumChannels(image, ChannelsOf(image))
        IN  /\ enhanced.channels = image.channels
            /\ \A q \in ChannelsOf(image) :
                LET input == image.rows[q[1]][q[2]][q[3]]
                    out == enhanced.rows[q[1]][q[2]][q[3]]
                    vnum == factor.den * total + factor.num * (n * input - total)
                    vden == factor.den * n
                IN  /\ out \in 0..255
                    /\ vnum < 0 => out = 0
                    /\ vnum > 255 * vden => out = 255
                    /\ (0 <= vnum /\ vnum <= 255 * vden) =>
                            (out * vden <= vnum /\ vnum < (out + 1) * vden)

\* the default factor on a frame whose values leave the range on both sides
C15_Witness ==
    /\ request.op = "enhance_contrast"
    /\ request.contrast_factor = DefaultContrastFactor
    /\ heap[1] = ColorFrame(<< <<Dim, Red>> >>)
    /\ heap[outcome[1].value] = ColorFrame(<< << <<0, 3, 18>>, <<255, 0, 0>> >> >>)

\* C16: no frame operation changes what a buffer that exists when it is
\* called holds: every buffer of the caller is after the call what it was
\* before, and enhancement and drawing go to buffers made by the operation.
C16_CallerBuffersUnchanged ==
    [][\A k \in DOMAIN heap : heap'[k] = heap[k]]_vars

\* a GIF analysis that retained and marked a frame
C16_Witness ==
    /\ request.op = "analyze_gif"
    /\ request.supplied = 2
    /\ outcome[1].raised = "none"
    /\ outcome[1].value.brightest_frame_marked # None
    /\ IsMarked(heap[outcome[1].value.brightest_frame_marked[1]])
    /\ \A k \in 1..request.supplied : ~IsMarked(heap[k])

\* the frame an analysis analysed as frame number i of the caller's buffers
RawAnalysedFrame(i) ==
    IF request.op = "analyze_video" /\ heap[i + 1].channels = 3
    THEN CvtColorBGR2RGB(heap[i + 1])
    ELSE heap[i + 1]

\* C17: in every result with a winning frame the winning-frame field holds
\* the raw analysed frame without markers and the annotated-frame field is
\* another buffer, so the drawing never alters the winning frame.
C17_WinningFrameRawAndSeparate ==
    (request.op \in {"analyze_image", "analyze_gif", "analyze_video"}
        /\ outcome[1].raised = "none"
        /\ outcome[1].value.brightest_frame # None) =>
            LET r == outcome[1].value
                winning == r.brightest_frame[1]
                annotated == r.brightest_frame_marked[1]
            IN  /\ ~IsMarked(heap[winning])
                /\ heap[winning] = RawAnalysedFrame(r.frame_number)
                /\ annotated # winning
                /\ IsMarked(heap[annotated])

---------------------------------------------------------------------------
(* Properties of the analysis tab (specification SpecUi) *)

\* C18: a scan that ends without a retained frame gives a result record with
\* a null winning frame, and the callers (the worker's preview,
\* update_progress, display_analysis) test for the null frame before they
\* render: no drawing, copy or preview operation is ever applied to a null
\* frame.
C18_NullFrameNeverRendered == null_frame_ops = {}

\* the worker threads that have not returned
RunningThreads == {t \in DOMAIN threads : threads[t].pc # "finished"}

\* C19: at any time at most one analysis worker is in progress: no entry to
\* run_analysis starts a second worker while an earlier one has not finished.
C19_AtMostOneWorker == Cardinality(RunningThreads) <= 1

\* a worker that holds the result of its analysis and has yet to store it
ResultPending(th) == th.result # None /\ th.pc \in {"set_progress", "store"}

\* C20: apart from progress, nothing the worker writes is read by the UI
\* thread before the worker has written it: update_progress, when it takes
\* the run for complete and reads analysis_results, never does so while a
\* worker still has its result to store.
C20_ResultReadAfterStored ==
    [][(update_progress /\ progress >= 100) =>
            \A t \in DOMAIN threads : ~ResultPending(threads[t])]_vars

\* update_progress reaches analysis_complete.emit: the run is taken for
\* complete, a result is held and its frame can be drawn on
EmitsResult ==
    /\ update_progress
    /\ progress >= 100
    /\ analysis_results # None
    /\ analysis_results[1].brightest_frame # None

\* C21: whenever update_progress takes a run for complete and emits
\* analysis_complete, the emitted result is the one the most recently started
\* run produced, never an earlier run's and never one emitted before the
\* current run has stored its result.
C21_EmittedResultIsLatestRun ==
    [][EmitsResult => analysis_results[1].run = Len(threads)]_vars

\* C22: two scans of the same source with the same stride return the same
\* brightest point, maximum brightness, average brightness, histogram and
\* winning frame index; a second analyze_video on the capture the first one
\* has finished with is such a scan.
C22_RescanReturnsSameResult ==
    (pc = "done" /\ previous # None) =>
        /\ result[1].brightest_point = previous[1].brightest_point
        /\ result[1].max_brightness = previous[1].max_brightness
        /\ result[1].average_brightness = previous[1].average_brightness
        /\ result[1].brightness_histogram = previous[1].brightness_histogram
        /\ result[1].frame_number = previous[1].frame_number

\* a capture that stood past its first frame was scanned twice with a stride
\* above one and a later frame won
C22_Witness ==
    /\ pc = "done"
    /\ previous # None
    /\ kind = "video"
    /\ sample_rate > 1
    /\ Len(pulls) > 2
    /\ result[1].frame_number > 0

\* an analysis has returned a result whose winning frame is not null
ResultWithFrame ==
    /\ request.op \in {"analyze_image", "analyze_gif", "analyze_video"}
    /\ outcome # None
    /\ outcome[1].raised = "none"
    /\ outcome[1].value.brightest_frame # None

\* the brightness map of the result's winning frame, at the result's point
WinningFrameValueAtPoint ==
    LET r == outcome[1].value
        b == calculate_brightness(BufferPixels(heap[r.brightest_frame[1]]))
    IN  b[r.brightest_point[2] + 1][r.brightest_point[1] + 1]

\* C30: in every analysis result with a non-null winning frame, max_brightness
\* is the value of the winning frame's brightness map at brightest_point and
\* average_brightness is at most max_brightness, for single-image and
\* sequence analysis alike.
C30_MaxIsWinningFrameValueAtPoint ==
    ResultWithFrame =>
        /\ WinningFrameValueAtPoint = outcome[1].value.max_brightness
        /\ outcome[1].value.average_brightness.num
             <= outcome[1].value.max_brightness
                    * outcome[1].value.average_brightness.den

\* current_image, current_video or a non-empty gif_frames is set
MediaLoaded ==
    \/ current_image # None
    \/ current_video # None
    \/ Len(gif_frames) > 0

\* C24: in every reachable state of AnalysisTab the Run Analysis button is
\* enabled only if media is loaded; clear() pressed while an analysis runs
\* does not lead to the button enabled with no media.
C24_ButtonEnabledOnlyWithMedia == analyze_button => MediaLoaded

\* the progress timer of the latest run is active
RunInProgress == Len(timers) > 0 /\ timers[Len(timers)]

\* the run is complete for the UI: timer stopped, progress bar hidden, both
\* buttons enabled
RunCompleteInUi ==
    /\ ~RunInProgress
    /\ ~progress_bar
    /\ analyze_button
    /\ load_button

\* C23: every run started by run_analysis eventually completes for the UI
\* (worker thread and progress timer being scheduled): the timer is stopped,
\* the progress bar hidden and both buttons re-enabled, also when the worker
\* raises and when the selected analysis type matches no loaded media.
C23_RunEventuallyCompletes == RunInProgress ~> RunCompleteInUi

\* C25: after every CaptureTab operation, with either backend, the tab's
\* stream_active equals the camera's stream_active and the tab's recording
\* equals the camera's recording, also when start_stream or start_recording
\* returns False and when set_resolution is called while recording.
C25_TabFlagsEqualCameraFlags ==
    /\ capture_tab.stream_active = camera.stream_active
    /\ capture_tab.recording = camera.recording

\* start_recording is called while a recording is active
StartWhileRecording == camera_start_recording /\ camera.recording

\* stop_recording is called while no recording is active
StopWhileIdle == camera_stop_recording /\ ~camera.recording

\* C26: for each backend, start_recording while a recording is active returns
\* False and leaves the recording flag, the open writer and the target
\* unchanged, and stop_recording while none is active returns False and
\* changes no state.
C26_RecordingCallsAreGuarded ==
    [][/\ StartWhileRecording =>
            /\ camera_call'.ret = "False"
            /\ camera' = camera
       /\ StopWhileIdle =>
            /\ camera_call'.ret = "False"
            /\ camera' = camera]_vars

\* C27: change_camera restores the previous activity: the tab's stream_active
\* and recording are after the call what they were before it, for every
\* combination of streaming and recording at call time.
C27_ChangeCameraRestoresActivity ==
    [][change_camera =>
            /\ capture_tab'.stream_active = capture_tab.stream_active
            /\ capture_tab'.recording = capture_tab.recording]_vars

\* the recent_files list the config file holds
PersistedRecent == RecentOf(config_file)

\* C28: after any sequence of open_file calls that select a file, the
\* persisted recent_files list has at most 10 entries, holds no path twice,
\* and has the path opened last first, the others in order of their last
\* opening.
C28_RecentFilesBoundedDistinctOrdered ==
    opens > 0 =>
        /\ config_file # None
        /\ config_file[1].valid
        /\ Len(PersistedRecent) \in 1..RecentLimit
        /\ \A i, j \in 1..Len(PersistedRecent) :
                i < j => PersistedRecent[i] # PersistedRecent[j]
        /\ last_opened[PersistedRecent[1]] = opens
        /\ \A i, j \in 1..Len(PersistedRecent) :
                i < j => last_opened[PersistedRecent[i]]
                            > last_opened[PersistedRecent[j]]

\* a new file was opened on a full list, then an old one again
C28_Witness ==
    /\ opens >= 2
    /\ Len(PersistedRecent) = RecentLimit
    /\ last_opened["g1"] > 0
    /\ PersistedRecent[1] = "f1"
    /\ PersistedRecent[2] = "g1"

\* C29: load_config and update_config leave the module-level DEFAULT_CONFIG
\* unchanged: after any sequence of load_config, update_config and
\* save_config calls every section and key of DEFAULT_CONFIG holds its
\* original default value, whatever the config file holds.
C29_DefaultConfigUnchanged == DEFAULT_CONFIG = OriginalDefaults

=============================================================================
